---- MODULE Spec2Model ----
(***************************************************************************)
(* Model of the tool-calling bridge of the multi-agent chatbot             *)
(* (src/app.py): credential lookup, tool dispatch and the two-round        *)
(* conversation protocol of get_chat_response.                             *)
(*                                                                         *)
(* Text is modelled as a sequence of atoms (short pieces of text), so that *)
(* concatenation, lower-casing and substring search are computed, not      *)
(* assumed.  Python values that may or may not be text are tagged records  *)
(* (PyStr / PyNone).                                                       *)
(***************************************************************************)
EXTENDS Integers, Sequences, FiniteSets, TLC

\* ------------------------------------------------------------------ bounds
\* Largest number of tool-call requests in one first-round response.
MaxCalls == 2

\* Longest history snapshot handed to a turn.
MaxHistory == 12

\* ------------------------------------------------------------- text model
PyNone == [type |-> "NoneType"]

PyStr(s) == [type |-> "str", val |-> s]

\* str.lower() on one atom; atoms without cased letters map to themselves.
LowerAtom(a) ==
    CASE a = "API" -> "api"
      [] a = "Key" -> "key"
      [] a = "Rate" -> "rate"
      [] a = "Limit" -> "limit"
      [] a = "Authentication" -> "authentication"
      [] a = "Incorrect" -> "incorrect"
      [] a = "Connection" -> "connection"
      [] a = "Expecting" -> "expecting"
      [] a = "Paris" -> "paris"
      [] a = "PARIS" -> "paris"
      [] a = "Atlantis" -> "atlantis"
      [] OTHER -> a

\* str.lower()
Lower(s) == [k \in 1..Len(s) |-> LowerAtom(s[k])]

\* Python's  pat in s  (contiguous occurrence).
Contains(s, pat) ==
    \E k \in 0..(Len(s) - Len(pat)) :
        \A j \in 1..Len(pat) : s[k + j] = pat[j]

\* str.strip() at atom granularity: drop blank atoms at both ends.
IsBlankAtom(a) == a \in {"", " ", "    ", "        "}

RECURSIVE LStrip(_)
LStrip(s) == IF s # <<>> /\ IsBlankAtom(Head(s)) THEN LStrip(Tail(s)) ELSE s

RECURSIVE RStrip(_)
RStrip(s) ==
    IF s # <<>> /\ IsBlankAtom(s[Len(s)]) THEN RStrip(SubSeq(s, 1, Len(s) - 1)) ELSE s

Strip(s) == RStrip(LStrip(s))

\* --------------------------------------------------------- agent registry
\* inspect.Parameter.empty: the marker of "no default".
Empty == [type |-> "empty"]

PyInt(n) == [type |-> "int", val |-> n]

Param(n, ann, dflt) == [name |-> n, annotation |-> ann, default |-> dflt]

\* A docstring as its lines (doc.split("\n")); every docstring of the
\* repository opens with a line break, so the first line is empty.
DocLines(summary, paramLines, returns) ==
    << <<>>, <<"    ", summary>>, <<"    ">> >>
    \o (IF paramLines = <<>> THEN <<>>
        ELSE << <<"    ", "Args", ":">> >> \o paramLines \o << <<"    ">> >>)
    \o << <<"    ", "Returns", ":">>, <<"        ", returns>>, <<"    ">> >>

ParamLine(n, text) == <<"        ", n, ":", " ", text>>

search_products ==
    [name |-> "search_products",
     params |-> <<Param("query", "str", PyStr(<<>>)), Param("category", "str", PyStr(<<>>))>>,
     doc |-> DocLines("Search for products in the MegaStore catalog.",
                <<ParamLine("query", "Search term to find products by name (optional)"),
                  ParamLine("category", "Filter by category - electronics, sports, or home (optional)")>>,
                "Dictionary containing matching products and search metadata")]

check_order_status ==
    [name |-> "check_order_status",
     params |-> <<Param("order_id", "str", Empty)>>,
     doc |-> DocLines("Check the current status of a customer order.",
                <<ParamLine("order_id", "The order ID to look up (e.g., ORD-1001)")>>,
                "Dictionary containing order status, items, and delivery information")]

get_product_details ==
    [name |-> "get_product_details",
     params |-> <<Param("product_id", "int", Empty)>>,
     doc |-> DocLines("Get detailed information about a specific product.",
                <<ParamLine("product_id", "The numeric product ID (1-10)")>>,
                "Dictionary containing full product details including availability and shipping info")]

get_stock_price ==
    [name |-> "get_stock_price",
     params |-> <<Param("symbol", "str", Empty)>>,
     doc |-> DocLines("Get the current stock price and daily performance for a ticker symbol.",
                <<ParamLine("symbol", "Stock ticker symbol (e.g., AAPL, GOOGL, MSFT, TSLA)")>>,
                "Dictionary containing current price, daily change, and stock information")]

get_market_summary ==
    [name |-> "get_market_summary",
     params |-> <<>>,
     doc |-> DocLines("Get an overview of major market indices and overall market conditions.",
                <<>>,
                "Dictionary containing major indices, market status, and sentiment indicators")]

get_stock_news ==
    [name |-> "get_stock_news",
     params |-> <<Param("symbol", "str", PyStr(<<>>))>>,
     doc |-> DocLines("Get the latest financial news, optionally filtered by stock symbol.",
                <<ParamLine("symbol", "Optional stock ticker to filter news (e.g., AAPL, TSLA)")>>,
                "Dictionary containing relevant news articles and market updates")]

get_weather_forecast ==
    [name |-> "get_weather_forecast",
     params |-> <<Param("city", "str", Empty), Param("days", "int", PyInt(3))>>,
     doc |-> DocLines("Get the current weather and forecast for a specific city using live data from Open-Meteo.",
                <<ParamLine("city", "City name (e.g., New York, London, Tokyo, Miami)"),
                  ParamLine("days", "Number of forecast days (1-7, default is 3)")>>,
                "Dictionary containing current conditions and multi-day forecast from Open-Meteo")]

get_weather_alerts ==
    [name |-> "get_weather_alerts",
     params |-> <<Param("city", "str", Empty)>>,
     doc |-> DocLines("Check for active weather alerts and warnings in a specific area using MCP server.",
                <<ParamLine("city", "City name to check for weather alerts")>>,
                "Dictionary containing any active alerts, their severity, and safety recommendations")]

get_air_quality ==
    [name |-> "get_air_quality",
     params |-> <<Param("city", "str", Empty)>>,
     doc |-> DocLines("Get the Air Quality Index (AQI) and health recommendations for a city using MCP server.",
                <<ParamLine("city", "City name to check air quality")>>,
                "Dictionary containing AQI value, category, pollutants, and health advice")]

ecommerce_tools == <<search_products, check_order_status, get_product_details>>

stock_tools == <<get_stock_price, get_market_summary, get_stock_news>>

weather_tools == <<get_weather_forecast, get_weather_alerts, get_air_quality>>

\* Only the persona text ("description") of a configuration reaches the bridge;
\* it is kept as its opening sentence.
ECOMMERCE_CONFIG == [id |-> "ecommerce", name |-> "ShopBot",
                     description |-> <<"You are ShopBot, the friendly and enthusiastic shopping assistant for MegaStore E-commerce.">>]

STOCK_CONFIG == [id |-> "stock", name |-> "FinanceBot",
                 description |-> <<"You are FinanceBot, the professional financial assistant for TradePro Securities.">>]

WEATHER_CONFIG == [id |-> "weather", name |-> "SkyWatch",
                   description |-> <<"You are SkyWatch, the helpful and friendly weather assistant for GlobalWeather Services.">>]

AGENTS == [ecommerce |-> ECOMMERCE_CONFIG, stock |-> STOCK_CONFIG, weather |-> WEATHER_CONFIG]

TOOLS == [ecommerce |-> ecommerce_tools, stock |-> stock_tools, weather |-> weather_tools]

\* ------------------------------------------------- get_tool_definitions
ParamNames(tool) == [k \in 1..Len(tool.params) |-> tool.params[k].name]

ParamType(annotation) ==
    CASE annotation = "int" -> "integer"
      [] annotation = "float" -> "number"
      [] annotation = "bool" -> "boolean"
      [] OTHER -> "string"

\* line.split(":")[-1]
AfterLastColon(line) ==
    IF \E k \in 1..Len(line) : line[k] = ":"
    THEN LET k == CHOOSE c \in 1..Len(line) :
                     line[c] = ":" /\ \A d \in (c + 1)..Len(line) : line[d] # ":"
         IN  SubSeq(line, k + 1, Len(line))
    ELSE line

\* line.split(":", 1)[-1]
AfterFirstColon(line) ==
    IF \E k \in 1..Len(line) : line[k] = ":"
    THEN LET k == CHOOSE c \in 1..Len(line) :
                     line[c] = ":" /\ \A d \in 1..(c - 1) : line[d] # ":"
         IN  SubSeq(line, k + 1, Len(line))
    ELSE line

ParamDesc(tool, n) ==
    LET hits == {k \in 1..Len(tool.doc) : Contains(tool.doc[k], <<n, ":">>)}
    IN  IF hits = {} THEN <<"Parameter: ", n>>
        ELSE LET first == CHOOSE k \in hits : \A h \in hits : k <= h
             IN  Strip(AfterFirstColon(tool.doc[first]))

IsOptional(param) == param.default # Empty

IsRequired(param) == param.default = Empty

RequiredOf(tool) ==
    LET req == SelectSeq(tool.params, IsRequired)
    IN  [k \in 1..Len(req) |-> req[k].name]

ToolDefinition(tool) ==
    [type |-> "function",
     function |->
        [name |-> tool.name,
         description |-> IF tool.doc # <<>> THEN tool.doc[1] ELSE <<"Execute ", tool.name>>,
         parameters |->
            [type |-> "object",
             properties |->
                [n \in {tool.params[k].name : k \in 1..Len(tool.params)} |->
                    LET p == CHOOSE q \in {tool.params[k] : k \in 1..Len(tool.params)} : q.name = n
                    IN  [type |-> ParamType(p.annotation), description |-> ParamDesc(tool, n)]],
             required |-> RequiredOf(tool)]]]

get_tool_definitions(tool_list) == [k \in 1..Len(tool_list) |-> ToolDefinition(tool_list[k])]

\* ----------------------------------------------------- JSON conversions
PyDict(items) == [type |-> "dict", items |-> items]

NoItems == [k \in {} |-> PyNone]

PyList == [type |-> "list"]

Decoded(v) == [raised |-> FALSE, value |-> v]

Raised(msg) == [raised |-> TRUE, msg |-> msg]

\* The argument payloads a first-round response may carry.
ArgumentTexts ==
    {"{}", "{\"symbol\": \"AAPL\"}", "{\"symbol\": 123}", "{\"city\": \"Paris\"}",
     "[\"AAPL\"]", "{\"symbol\": "}

\* json.loads on those payloads: the decoded value, or the JSONDecodeError.
json_loads(text) ==
    CASE text = "{}" -> Decoded(PyDict(NoItems))
      [] text = "{\"symbol\": \"AAPL\"}" ->
            Decoded(PyDict([k \in {"symbol"} |-> PyStr(<<"AAPL">>)]))
      [] text = "{\"symbol\": 123}" ->
            Decoded(PyDict([k \in {"symbol"} |-> PyInt(123)]))
      [] text = "{\"city\": \"Paris\"}" ->
            Decoded(PyDict([k \in {"city"} |-> PyStr(<<"Paris">>)]))
      [] text = "[\"AAPL\"]" -> Decoded(PyList)
      [] OTHER -> Raised(<<"Expecting", " ", "value", ": line 1 column 12 (char 11)">>)

\* json.dumps(value, indent=2): the text that carries a tool result.
json_dumps(value) == [type |-> "str", json |-> value, indent |-> 2]

\* ------------------------------------------------------------ tool bodies
Truthy(v) ==
    CASE v.type = "str" -> v.val # <<>>
      [] v.type = "int" -> v.val # 0
      [] OTHER -> FALSE

AttributeError(v, attr) == Raised(<<"'", v.type, "' object has no attribute '", attr, "'">>)

Returned(v) == [raised |-> FALSE, value |-> v]

\* The keys of the simulated tables (src/agents/stock.py, ecommerce.py).
STOCKS == {<<"AAPL">>, <<"GOOGL">>, <<"MSFT">>, <<"TSLA">>}

\* ------------------------------------- the weather tools (agents/weather.py)
\* str.title() on the city names used here.
TitleAtom(a) ==
    CASE a \in {"Paris", "PARIS", "paris"} -> "Paris"
      [] a \in {"Atlantis", "atlantis"} -> "Atlantis"
      [] OTHER -> a

Title(s) == [k \in 1..Len(s) |-> TitleAtom(s[k])]

Min(a, b) == IF a < b THEN a ELSE b

Max(a, b) == IF a > b THEN a ELSE b

\* min(max(days, 1), 7)
ClampDays(days) == Min(Max(days, 1), 7)

\* What a tool meets upstream: no client at all, a client method that
\* returns None (before or after asking the provider), a failure raised
\* inside the tool's try block, or data with a number of daily entries.
Unavailable == [kind |-> "unavailable"]

NoData(asked) == [kind |-> "no_data", asked |-> asked]

Fails(msg) == [kind |-> "fails", msg |-> msg]

Data(daily) == [kind |-> "data", daily |-> daily]

\* The mapping returned when _get_mcp_client() gave no client.
WeatherUnavailable(tool, city) ==
    CASE tool = "get_weather_forecast" ->
            [success |-> FALSE, city |-> Title(city),
             error |-> <<"Weather service unavailable">>,
             message |-> <<"Unable to connect to the MCP Weather Server. Please try again later.">>,
             suggestion |-> <<"The weather service may be starting up. Please wait a moment and try again.">>]
      [] tool = "get_weather_alerts" ->
            [success |-> FALSE, city |-> Title(city),
             error |-> <<"Alert service unavailable">>,
             message |-> <<"Unable to connect to the weather alert service.">>]
      [] OTHER ->
            [success |-> FALSE, city |-> Title(city),
             error |-> <<"Air quality service unavailable">>,
             message |-> <<"Unable to connect to the air quality service.">>]

\* The mapping returned when the client method gave None.
WeatherNoData(tool, city) ==
    CASE tool = "get_weather_forecast" ->
            [success |-> FALSE, city |-> Title(city),
             error |-> <<"No data received">>,
             message |-> <<"Could not retrieve weather data for '">> \o city \o <<"'.">>,
             suggestion |-> <<"Please check the city name spelling or try a major city nearby.">>]
      [] tool = "get_weather_alerts" ->
            [success |-> FALSE, city |-> Title(city),
             error |-> <<"No data received">>,
             message |-> <<"Could not check alerts for '">> \o city \o <<"'.">>]
      [] OTHER ->
            [success |-> FALSE, city |-> Title(city),
             error |-> <<"No data received">>,
             message |-> <<"Could not retrieve air quality data for '">> \o city \o <<"'.">>,
             suggestion |-> <<"Please check the city name or try a major city nearby.">>]

\* The mapping returned by the tool's except clause.
WeatherFailed(tool, city, msg) ==
    CASE tool = "get_weather_forecast" ->
            [success |-> FALSE, city |-> Title(city), error |-> msg,
             message |-> <<"Failed to retrieve weather for '">> \o city \o <<"'.">>,
             suggestion |-> <<"Please check the city name or try again later.">>]
      [] tool = "get_weather_alerts" ->
            [success |-> FALSE, city |-> Title(city), error |-> msg,
             message |-> <<"Failed to check alerts for '">> \o city \o <<"'.">>]
      [] OTHER ->
            [success |-> FALSE, city |-> Title(city), error |-> msg,
             message |-> <<"Failed to retrieve air quality for '">> \o city \o <<"'.">>,
             suggestion |-> <<"Please check the city name or try again later.">>]

\* Variant of ForecastLength: one entry per daily entry of the provider.
ForecastLengthUnclamped(days, daily) == daily

\* range(min(days, len(daily_times))) with days already clamped
ForecastLength(days, daily) == Min(ClampDays(days), daily)

\* The mapping of a tool that got data; of its fields the forecast list
\* keeps one entry per day.
WeatherSuccess(tool, city, days, daily) ==
    CASE tool = "get_weather_forecast" ->
            [success |-> TRUE, city |-> Title(city),
             forecast |-> [k \in 1..ForecastLength(days, daily) |->
                              [day |-> IF k = 1 THEN "Today" ELSE "weekday"]],
             source |-> <<"Open-Meteo via MCP Server (Live Data)">>]
      [] tool = "get_weather_alerts" ->
            [success |-> TRUE, city |-> Title(city),
             source |-> <<"Open-Meteo via MCP Server (Live Analysis)">>]
      [] OTHER ->
            [success |-> TRUE, city |-> Title(city),
             source |-> <<"Open-Meteo Air Quality via MCP Server (Live Data)">>]

\* forecast_days as MCPWeatherClient.get_forecast sends it: the tool passes
\* its clamped days and the client clamps again.
ForecastDaysSent(days) == ClampDays(ClampDays(days))

\* One run of a weather tool: the forecast_days values sent to the provider
\* and the outcome (every branch returns, none raises).
WeatherTool(tool, city, days, upstream) ==
    [requested |->
        IF tool = "get_weather_forecast"
           /\ (upstream.kind \in {"data", "fails"}
               \/ (upstream.kind = "no_data" /\ upstream.asked))
        THEN <<ForecastDaysSent(days)>>
        ELSE <<>>,
     outcome |->
        [raised |-> FALSE,
         value |-> CASE upstream.kind = "unavailable" -> WeatherUnavailable(tool, city)
                     [] upstream.kind = "no_data" -> WeatherNoData(tool, city)
                     [] upstream.kind = "fails" -> WeatherFailed(tool, city, upstream.msg)
                     [] OTHER -> WeatherSuccess(tool, city, days, upstream.daily)]]

\* What the body of a registered tool can do with its bound parameters kw:
\* the set of outcomes (a returned mapping or a raised failure).  Of a
\* returned mapping only the success flag and the error fields are kept.
ToolBody(name, kw) ==
    CASE name = "get_stock_price" ->
            IF kw["symbol"].type # "str" THEN {AttributeError(kw["symbol"], "upper")}
            ELSE IF kw["symbol"].val \in STOCKS
                 THEN {Returned([success |-> TRUE, symbol |-> kw["symbol"].val])}
                 ELSE {Returned([success |-> FALSE,
                                 error |-> <<"Symbol '">> \o kw["symbol"].val
                                              \o <<"' not found in our database">>,
                                 suggestion |-> <<"Try one of these popular symbols:">>])}
      [] name = "get_market_summary" -> {Returned([success |-> TRUE])}
      [] name = "get_stock_news" ->
            IF Truthy(kw["symbol"]) /\ kw["symbol"].type # "str"
            THEN {AttributeError(kw["symbol"], "upper")}
            ELSE {Returned([success |-> TRUE,
                            filter |-> IF Truthy(kw["symbol"]) THEN kw["symbol"].val
                                       ELSE <<"All Markets">>])}
      [] name = "search_products" ->
            IF Truthy(kw["category"]) /\ kw["category"].type # "str"
            THEN {AttributeError(kw["category"], "lower")}
            ELSE IF Truthy(kw["query"]) /\ kw["query"].type # "str"
            THEN {AttributeError(kw["query"], "lower")}
            ELSE {Returned([success |-> TRUE])}
      [] name = "check_order_status" ->
            IF kw["order_id"].type # "str" THEN {AttributeError(kw["order_id"], "upper")}
            ELSE {Returned([success |-> FALSE,
                            error |-> <<"Order '", "ORD-">> \o kw["order_id"].val \o <<"' not found">>,
                            suggestion |-> <<"Please verify your order ID. Valid formats: ORD-1001 or just 1001">>])}
      [] name = "get_product_details" ->
            {Returned([success |-> FALSE,
                       error |-> <<"Product ID ", "not found">>,
                       suggestion |-> <<"Product IDs range from 1 to 10. Try searching for products first!">>])}
      [] name = "get_weather_forecast" /\ kw["days"].type # "int" ->
            {Raised(<<"'>' not supported between instances of 'int' and '", kw["days"].type, "'">>)}
      [] OTHER ->
            \* the three weather tools: the client and the provider decide
            IF kw["city"].type # "str" THEN {AttributeError(kw["city"], "title")}
            ELSE {Returned([success |-> TRUE, city |-> kw["city"].val]),
                  Returned(WeatherNoData(name, kw["city"].val))}

\* Variant of CallTool: a parameter left out of the arguments is missing
\* whether or not the signature gives it a default.
CallToolWithoutDefaults(tool, args) ==
    IF args.type # "dict"
    THEN {Raised(<<tool.name, "() argument after ** must be a mapping, not ", args.type>>)}
    ELSE
      LET names == {tool.params[k].name : k \in 1..Len(tool.params)}
          unexpected == DOMAIN args.items \ names
          missing == {k \in 1..Len(tool.params) : tool.params[k].name \notin DOMAIN args.items}
      IN  IF unexpected # {}
          THEN {Raised(<<tool.name, "() got an unexpected keyword argument '", k, "'">>) :
                   k \in unexpected}
          ELSE IF missing # {}
          THEN LET k == CHOOSE m \in missing : \A o \in missing : m <= o
               IN  {Raised(<<tool.name, "() missing 1 required positional argument: '",
                             tool.params[k].name, "'">>)}
          ELSE ToolBody(tool.name, args.items)

\* tool(**args): bind the arguments to the signature, then run the body.
CallTool(tool, args) ==
    IF args.type # "dict"
    THEN {Raised(<<tool.name, "() argument after ** must be a mapping, not ", args.type>>)}
    ELSE
      LET names == {tool.params[k].name : k \in 1..Len(tool.params)}
          unexpected == DOMAIN args.items \ names
          missing == {k \in 1..Len(tool.params) :
                        /\ tool.params[k].default = Empty
                        /\ tool.params[k].name \notin DOMAIN args.items}
      IN  IF unexpected # {}
          THEN {Raised(<<tool.name, "() got an unexpected keyword argument '", k, "'">>) :
                   k \in unexpected}
          ELSE IF missing # {}
          THEN LET k == CHOOSE m \in missing : \A o \in missing : m <= o
               IN  {Raised(<<tool.name, "() missing 1 required positional argument: '",
                             tool.params[k].name, "'">>)}
          ELSE ToolBody(tool.name,
                        [n \in names |->
                            IF n \in DOMAIN args.items THEN args.items[n]
                            ELSE (CHOOSE q \in {tool.params[k] : k \in 1..Len(tool.params)} :
                                      q.name = n).default])

\* --------------------------------------------------------- execute_tool
\* tools_map = {t.__name__: t for t in tools}
ToolNames(tool_list) == {tool_list[k].name : k \in 1..Len(tool_list)}

ToolsMap(tool_list, name) ==
    tool_list[CHOOSE k \in 1..Len(tool_list) :
              /\ tool_list[k].name = name
              /\ \A j \in (k + 1)..Len(tool_list) : tool_list[j].name # name]

\* Variant of ExceptInTool: only failures of the tool body are caught, a
\* failed binding of the arguments gets through.
ExceptInToolBodyOnly(o) ==
    IF o.raised /\ o.msg[1] = "'"
    THEN Returned([error |-> <<"Tool execution failed: ">> \o o.msg])
    ELSE o

\* try: ... except Exception as e: return {"error": ...}
ExceptInTool(o) ==
    IF o.raised THEN Returned([error |-> <<"Tool execution failed: ">> \o o.msg]) ELSE o

NotCalled == [raised |-> FALSE, skipped |-> TRUE]

\* Variant of execute_tool: the lookup is not guarded.
execute_tool_unguarded(tool_name, tool_list, args) ==
    IF tool_name \in ToolNames(tool_list)
    THEN {[invoked |-> TRUE, callee |-> o, outcome |-> ExceptInTool(o)] :
             o \in CallTool(ToolsMap(tool_list, tool_name), args)}
    ELSE {[invoked |-> FALSE, callee |-> NotCalled,
           outcome |-> Raised(<<"'", tool_name, "'">>)]}

\* The runs execute_tool can take: whether a callable was invoked, what the
\* callable did (callee), and the outcome handed to the caller (a returned
\* mapping or a raised failure).
execute_tool(tool_name, tool_list, args) ==
    IF tool_name \in ToolNames(tool_list)
    THEN {[invoked |-> TRUE, callee |-> o, outcome |-> ExceptInTool(o)] :
             o \in CallTool(ToolsMap(tool_list, tool_name), args)}
    ELSE {[invoked |-> FALSE, callee |-> NotCalled,
           outcome |-> Returned([error |-> <<"Tool '", tool_name, "' not found">>])]}

\* ---------------------------------------------------- get_chat_response
\* The fixed user-facing texts (their leading emoji is left out).
SetupInstructions == <<"**API Key Required** Please set your OpenAI API key to enable the chatbot">>

AuthenticationError == <<"**Authentication Error**: Please check your OpenAI API key.">>

RateLimited == <<"**Rate Limited**: Too many requests. Please wait a moment and try again.">>

GenericError(error_msg) == <<"**Error**: ">> \o error_msg

\* Number of history entries sent along (chat_history[-10:]).
HistoryWindow == 10

\* Variant of LastEntries: the oldest entries are kept (h[:n]).
FirstEntries(h, n) == IF Len(h) <= n THEN h ELSE SubSeq(h, 1, n)

LastEntries(h, n) == IF Len(h) <= n THEN h ELSE SubSeq(h, Len(h) - n + 1, Len(h))

\* Variant of get_api_key: a placeholder key when nothing is configured.
get_api_key_placeholder(secretStore, env) ==
    IF "OPENAI_API_KEY" \in DOMAIN secretStore THEN secretStore["OPENAI_API_KEY"]
    ELSE IF "OPENAI_API_KEY" \in DOMAIN env THEN env["OPENAI_API_KEY"]
    ELSE "your-key-here"

\* st.secrets["OPENAI_API_KEY"], falling back to os.getenv(..., "") when the
\* lookup raises.
get_api_key(secretStore, env) ==
    IF "OPENAI_API_KEY" \in DOMAIN secretStore THEN secretStore["OPENAI_API_KEY"]
    ELSE IF "OPENAI_API_KEY" \in DOMAIN env THEN env["OPENAI_API_KEY"]
    ELSE ""

\* messages of the first request: system persona, recent history, user message.
Compose(agent_config, history, user_msg) ==
    << [role |-> "system", content |-> agent_config.description] >>
    \o [k \in 1..Len(LastEntries(history, HistoryWindow)) |->
           [role |-> LastEntries(history, HistoryWindow)[k].role,
            content |-> LastEntries(history, HistoryWindow)[k].content]]
    \o << [role |-> "user", content |-> user_msg] >>

\* Variant of ExceptClause: the message is searched as it is, not lower-cased.
ExceptClauseCaseSensitive(error_msg) ==
    IF \/ Contains(error_msg, <<"api", "_", "key">>)
       \/ Contains(error_msg, <<"authentication">>)
    THEN AuthenticationError
    ELSE IF Contains(error_msg, <<"rate", "_", "limit">>)
    THEN RateLimited
    ELSE GenericError(error_msg)

\* Variant of ExceptClause: rate limiting is tested first.
ExceptClauseRateFirst(error_msg) ==
    IF Contains(Lower(error_msg), <<"rate", "_", "limit">>)
    THEN RateLimited
    ELSE IF \/ Contains(Lower(error_msg), <<"api", "_", "key">>)
            \/ Contains(Lower(error_msg), <<"authentication">>)
    THEN AuthenticationError
    ELSE GenericError(error_msg)

\* except Exception as e: classify str(e)
ExceptClause(error_msg) ==
    IF \/ Contains(Lower(error_msg), <<"api", "_", "key">>)
       \/ Contains(Lower(error_msg), <<"authentication">>)
    THEN AuthenticationError
    ELSE IF Contains(Lower(error_msg), <<"rate", "_", "limit">>)
    THEN RateLimited
    ELSE GenericError(error_msg)

\* Variant of WantsTools: a reply without text also enters the tool loop.
WantsToolsOrNoText(message) == message.tool_calls # <<>> \/ message.content = PyNone

\* if assistant_message.tool_calls:
WantsTools(message) == message.tool_calls # <<>>

\* Variant of ToolMessage: the message is tagged with the tool's name.
ToolMessageTaggedByName(tool_call, tool_result) ==
    [role |-> "tool", tool_call_id |-> tool_call.function.name,
     content |-> json_dumps(tool_result)]

\* The tool-role message that answers one tool-call request.
ToolMessage(tool_call, tool_result) ==
    [role |-> "tool", tool_call_id |-> tool_call.id, content |-> json_dumps(tool_result)]

\* Variant of LoopItem: the requests are taken last to first.
LoopItemReversed(message, index) ==
    message.tool_calls[Len(message.tool_calls) - index + 1]

\* for tool_call in assistant_message.tool_calls: the item of one iteration.
LoopItem(message, index) == message.tool_calls[index]

\* ------------------------------------------------------------ the inputs
NoSettings == [k \in {} |-> ""]

\* The secret store and the process environment a turn can run under.
SecretStores == {NoSettings, [OPENAI_API_KEY |-> ""], [OPENAI_API_KEY |-> "sk-secret"]}

Environments == {NoSettings, [OPENAI_API_KEY |-> "sk-env"]}

\* The caller's history snapshot and message.
StoredHistory ==
    << [role |-> "user", content |-> PyStr(<<"hi">>)],
       [role |-> "assistant", content |-> PyStr(<<"Hello! How can I help?">>)] >>

UserMessage == <<"price of AAPL">>

\* str(e) of the faults the completion interface raises.
CompletionFaults ==
    { <<"Error code: 401 - ", "invalid", "_", "api", "_", "key">>,
      <<"Authentication", "Error">>,
      <<"Error code: 429 - ", "rate", "_", "limit", "_", "exceeded">>,
      <<"Rate", "_", "Limit", " reached">>,
      <<"rate", "_", "limit", " reached for ", "api", "_", "key", " sk-...">>,
      <<"Incorrect", " ", "API", " ", "key", " provided">>,
      <<"Connection", " ", "error.">> }

\* The text of a reply: text, or null ("content: string|null").
ReplyContents == {PyStr(<<"Here is what I found.">>), PyNone}

\* Identifier of the k-th tool-call request of a response.
CallIdAt(k) == <<"call_b", "call_a", "call_d", "call_c">>[k]

\* A tool name the model made up.
UnknownTool == "doesNotExist"

\* ---------------------------------------------------------------- state
VARIABLES
    pc,                \* position of the turn in get_chat_response
    secrets,           \* st.secrets
    environ,           \* os.environ
    current_agent,     \* the agent whose configuration and tools were passed
    chat_history,      \* the chat_history argument
    messages,          \* the local transcript
    assistant_message, \* response.choices[0].message of the first request
    tool_index,        \* position of the tool-call loop (1-based)
    requests,          \* completion requests issued so far, in order
    dispatched,        \* the execute_tool runs so far, in order
    caught,            \* the failure the except clause caught, if any
    outcome            \* how the call ended, once it has

\* The state of one get_chat_response turn.
turnVars == <<pc, secrets, environ, current_agent, chat_history, messages,
              assistant_message, tool_index, requests, dispatched, caught, outcome>>

\* The schema builder taken alone: its argument and its result.
VARIABLES
    tool_list,         \* the tools argument of get_tool_definitions
    definitions        \* what get_tool_definitions returned, once it has

schemaVars == <<tool_list, definitions>>

\* The module-level client slots (_weather_client, _stock_client) and the
\* threads that call get_weather_client / get_stock_client.
VARIABLES
    singleton,         \* per module: the instance held by the global, 0 for None
    created,           \* per module: how many client instances were constructed
    caller             \* per thread: where it is in its call and what it got

clientVars == <<singleton, created, caller>>

\* The shared weather client and the _geocode_city calls running on it.
VARIABLES
    geocode_cache,     \* MCPWeatherClient._geocode_cache
    session,           \* MCPWeatherClient._session
    lookup,            \* per task: where it is in _geocode_city, with its locals
    queried,           \* the city arguments passed so far
    answered           \* the (key, result) pairs the geocoding service has given

geoVars == <<geocode_cache, session, lookup, queried, answered>>

\* Several get_chat_response invocations under way at once.
VARIABLES
    invocation,        \* per invocation: its position and its local variables
    given,             \* per invocation: the history and tool lists passed in
    geocode_writer     \* per cache key: the invocation that stored the entry

invocationVars == <<invocation, given, geocode_writer>>

\* A function of the program taken alone: its arguments and what it did.
VARIABLES
    input,             \* the arguments
    output             \* what the function did with them, once it has run

pureVars == <<input, output>>

\* The Streamlit script: its session state and the request of the last turn.
VARIABLES
    session_state,     \* st.session_state: messages per agent, current_agent
    first_request      \* the transcript the last chat turn sent first

uiVars == <<session_state, first_request>>

\* The process from start-up to teardown.
VARIABLES
    app,               \* the script's module level: phase and client references
    instances,         \* per client module: the state of each instance made
    stock_sources      \* where the stock tools' results came from so far

processVars == <<app, instances, stock_sources>>

laterVars == <<pureVars, uiVars, processVars>>

\* What lies outside a single turn.
otherVars == <<schemaVars, clientVars, geoVars, invocationVars, laterVars>>

vars == <<turnVars, otherVars>>

NotBuilt == [built |-> FALSE]

SchemaIdle == tool_list = <<>> /\ definitions = NotBuilt

Modules == {"weather", "stock"}

ClientsIdle ==
    /\ singleton = [m \in Modules |-> 0]
    /\ created = [m \in Modules |-> 0]
    /\ caller = <<>>

GeocodeIdle ==
    /\ geocode_cache = <<>>
    /\ session = "none"
    /\ lookup = <<>>
    /\ queried = {}
    /\ answered = {}

InvocationsIdle ==
    /\ invocation = <<>>
    /\ given = <<>>
    /\ geocode_writer = <<>>

NotRun == [ran |-> FALSE]

PureIdle == input = <<>> /\ output = NotRun

UIIdle == session_state = <<>> /\ first_request = <<>>

ProcessIdle == app = <<>> /\ instances = <<>> /\ stock_sources = {}

LaterIdle == PureIdle /\ UIIdle /\ ProcessIdle

OthersIdle == SchemaIdle /\ ClientsIdle /\ GeocodeIdle /\ InvocationsIdle /\ LaterIdle

agent_config == AGENTS[current_agent]

tools == TOOLS[current_agent]

NoMessage == [role |-> "none"]

NoFault == [source |-> "none"]

Running == [kind |-> "running"]

Return(v) == [kind |-> "returned", value |-> v]

\* No turn is under way.
TurnIdle ==
    /\ pc = "idle"
    /\ secrets = NoSettings
    /\ environ = NoSettings
    /\ current_agent = "ecommerce"
    /\ chat_history = <<>>
    /\ messages = <<>>
    /\ assistant_message = NoMessage
    /\ tool_index = 1
    /\ requests = <<>>
    /\ dispatched = <<>>
    /\ caught = NoFault
    /\ outcome = Running

Init ==
    /\ pc = "start"
    /\ secrets \in SecretStores
    /\ environ \in Environments
    /\ current_agent \in DOMAIN AGENTS
    /\ chat_history = StoredHistory
    /\ messages = <<>>
    /\ assistant_message = NoMessage
    /\ tool_index = 0
    /\ requests = <<>>
    /\ dispatched = <<>>
    /\ caught = NoFault
    /\ outcome = Running
    /\ OthersIdle

\* Variant of Fail: the failed request is awaited again instead of ending
\* the turn.
FailThenRetry(source, error_msg) ==
    /\ caught' = [source |-> source, msg |-> error_msg]
    /\ outcome' = outcome
    /\ pc' = "first_completion"

\* A failure reaches the except clause of get_chat_response.
Fail(source, error_msg) ==
    /\ caught' = [source |-> source, msg |-> error_msg]
    /\ outcome' = Return(PyStr(ExceptClause(error_msg)))
    /\ pc' = "done"

\* Entry up to the first completion request (src/app.py:307-351).
Start ==
    /\ pc = "start"
    /\ IF get_api_key(secrets, environ) = ""
       THEN /\ outcome' = Return(PyStr(SetupInstructions))
            /\ pc' = "done"
            /\ UNCHANGED <<messages, requests>>
       ELSE LET tool_definitions == get_tool_definitions(tools)
                transcript == Compose(agent_config, chat_history, UserMessage)
            IN  /\ messages' = transcript
                /\ requests' = Append(requests,
                      [messages |-> transcript,
                       tools |-> IF tool_definitions # <<>> THEN tool_definitions ELSE PyNone,
                       tool_choice |-> IF tool_definitions # <<>> THEN "auto" ELSE "None"])
                /\ pc' = "first_completion"
                /\ UNCHANGED outcome
    /\ UNCHANGED <<secrets, environ, current_agent, chat_history, assistant_message,
                   tool_index, dispatched, caught>>
    /\ UNCHANGED otherVars

\* The first completion request raises (src/app.py:344, 387-394).
FirstCompletionFails ==
    /\ pc = "first_completion"
    /\ \E f \in CompletionFaults : Fail("completion", f)
    /\ UNCHANGED <<secrets, environ, current_agent, chat_history, messages,
                   assistant_message, tool_index, requests, dispatched>>
    /\ UNCHANGED otherVars

\* The replies the first request can get: text (or null) without tool
\* calls, or up to MaxCalls tool-call requests.
FirstReplies ==
    {[role |-> "assistant", content |-> c, tool_calls |-> <<>>] : c \in ReplyContents}
    \cup
    UNION {{[role |-> "assistant", content |-> PyNone,
             tool_calls |-> [k \in 1..n |->
                 [id |-> CallIdAt(k),
                  function |-> [name |-> f[k][1], arguments |-> f[k][2]]]]] :
               f \in [1..n -> (ToolNames(tools) \cup {UnknownTool}) \X ArgumentTexts]} :
           n \in 1..MaxCalls}

\* The first response arrives (src/app.py:353-358, 385).
FirstCompletionReturns ==
    /\ pc = "first_completion"
    /\ \E reply \in FirstReplies :
          /\ assistant_message' = reply
          /\ IF WantsTools(reply)
             THEN /\ messages' = Append(messages, reply)
                  /\ tool_index' = 1
                  /\ pc' = "tool_loop"
                  /\ UNCHANGED outcome
             ELSE /\ outcome' = Return(reply.content)
                  /\ pc' = "done"
                  /\ UNCHANGED <<messages, tool_index>>
    /\ UNCHANGED <<secrets, environ, current_agent, chat_history, requests,
                   dispatched, caught>>
    /\ UNCHANGED otherVars

\* One iteration of the tool-call loop (src/app.py:361-373); after the last
\* one the second completion request is issued (src/app.py:376-381).
ToolCallStep ==
    /\ pc = "tool_loop"
    /\ tool_index <= Len(assistant_message.tool_calls)
    /\ LET tool_call == LoopItem(assistant_message, tool_index)
           tool_name == tool_call.function.name
           tool_args == json_loads(tool_call.function.arguments)
       IN  IF tool_args.raised
           THEN /\ Fail("decode", tool_args.msg)
                /\ UNCHANGED <<messages, tool_index, requests, dispatched>>
           ELSE \E run \in execute_tool(tool_name, tools, tool_args.value) :
                  /\ dispatched' = Append(dispatched,
                        [name |-> tool_name, args |-> tool_args.value,
                         invoked |-> run.invoked, callee |-> run.callee,
                         outcome |-> run.outcome])
                  /\ IF run.outcome.raised
                     THEN /\ Fail("tool", run.outcome.msg)
                          /\ UNCHANGED <<messages, tool_index, requests>>
                     ELSE LET transcript ==
                                  Append(messages, ToolMessage(tool_call, run.outcome.value))
                              last == tool_index = Len(assistant_message.tool_calls)
                          IN  /\ messages' = transcript
                              /\ tool_index' = tool_index + 1
                              /\ requests' = IF last
                                             THEN Append(requests, [messages |-> transcript])
                                             ELSE requests
                              /\ pc' = IF last THEN "second_completion" ELSE "tool_loop"
                              /\ UNCHANGED <<caught, outcome>>
    /\ UNCHANGED <<secrets, environ, current_agent, chat_history, assistant_message>>
    /\ UNCHANGED otherVars

\* The second completion request raises (src/app.py:376, 387-394).
SecondCompletionFails ==
    /\ pc = "second_completion"
    /\ \E f \in CompletionFaults : Fail("completion", f)
    /\ UNCHANGED <<secrets, environ, current_agent, chat_history, messages,
                   assistant_message, tool_index, requests, dispatched>>
    /\ UNCHANGED otherVars

\* The second response is returned (src/app.py:383).
SecondCompletionAnswers ==
    /\ pc = "second_completion"
    /\ \E c \in ReplyContents : outcome' = Return(c)
    /\ pc' = "done"
    /\ UNCHANGED <<secrets, environ, current_agent, chat_history, messages,
                   assistant_message, tool_index, requests, dispatched, caught>>
    /\ UNCHANGED otherVars

Next ==
    \/ Start
    \/ FirstCompletionFails
    \/ FirstCompletionReturns
    \/ ToolCallStep
    \/ SecondCompletionFails
    \/ SecondCompletionAnswers

Spec == Init /\ [][Next]_vars

\* ------------------------------------------------------------ properties
\* The tool-call requests of the first response (none before it arrived).
ToolCalls == IF assistant_message = NoMessage THEN <<>> ELSE assistant_message.tool_calls

\* Position of the assistant message in the transcript of the second request.
AssistantAt == Len(requests[1].messages) + 1

Undecodable(tool_call) == json_loads(tool_call.function.arguments).raised

MentionsAuthentication(msg) ==
    \/ Contains(Lower(msg), <<"api", "_", "key">>)
    \/ Contains(Lower(msg), <<"authentication">>)

MentionsRateLimit(msg) == Contains(Lower(msg), <<"rate", "_", "limit">>)

\* C1 (pairing invariant): when the second completion request has been
\* issued, its transcript is the first transcript, the assistant tool-call
\* message, and then exactly one tool-role message per tool-call request,
\* carrying the requests' identifiers in the requests' order.
PairingInvariant ==
    Len(requests) = 2 =>
        LET t == requests[2].messages
            n == Len(ToolCalls)
        IN  /\ n >= 1
            /\ Len(t) = AssistantAt + n
            /\ SubSeq(t, 1, AssistantAt - 1) = requests[1].messages
            /\ t[AssistantAt] = assistant_message
            /\ \A k \in 1..n :
                  /\ t[AssistantAt + k].role = "tool"
                  /\ t[AssistantAt + k].tool_call_id = ToolCalls[k].id

PairingWitness == Len(requests) = 2 /\ Len(ToolCalls) >= 2

\* C2 (decode failure is recoverable), as claimed: a finished turn whose
\* first response held a tool call with an undecodable argument payload has
\* issued the second request, and that request's transcript answers the call
\* with the wrapped failure {error: "Tool execution failed: <decode error>"}.
DecodeFailureRecoverable ==
    \A k \in 1..Len(ToolCalls) :
        (pc = "done" /\ Undecodable(ToolCalls[k])) =>
            /\ Len(requests) = 2
            /\ requests[2].messages[AssistantAt + k] =
                  [role |-> "tool", tool_call_id |-> ToolCalls[k].id,
                   content |-> json_dumps(
                       [error |-> <<"Tool execution failed: ">>
                                     \o json_loads(ToolCalls[k].function.arguments).msg])]

\* C3 (dispatcher safety on tool faults): every run of execute_tool whose
\* callable raised hands back {error: "Tool execution failed: <message>"}
\* with the failure's message, and does not raise.
DispatcherWrapsToolFaults ==
    \A k \in 1..Len(dispatched) :
        (dispatched[k].invoked /\ dispatched[k].callee.raised) =>
            /\ ~dispatched[k].outcome.raised
            /\ dispatched[k].outcome.value =
                  [error |-> <<"Tool execution failed: ">> \o dispatched[k].callee.msg]

\* A turn in which a failed binding and a failure of a tool body were both
\* wrapped.
ToolFaultWitness ==
    /\ \E k \in 1..Len(dispatched) :
          dispatched[k].callee.raised /\ dispatched[k].callee.msg[1] = "'"
    /\ \E k \in 1..Len(dispatched) :
          dispatched[k].callee.raised /\ dispatched[k].callee.msg[1] # "'"

\* C4 (dispatcher safety on unknown names): every run of execute_tool for a
\* name that no callable of the tool list bears invokes nothing and hands
\* back {error: "Tool '<name>' not found"} without raising.
DispatcherRejectsUnknownNames ==
    \A k \in 1..Len(dispatched) :
        dispatched[k].name \notin ToolNames(tools) =>
            /\ ~dispatched[k].invoked
            /\ ~dispatched[k].outcome.raised
            /\ dispatched[k].outcome.value =
                  [error |-> <<"Tool '", dispatched[k].name, "' not found">>]

UnknownNameWitness ==
    \E k \in 1..Len(dispatched) : dispatched[k].name = UnknownTool

\* C5 (tool-not-found never aborts the turn), as claimed: a finished turn
\* whose first response requested an unregistered tool has issued the second
\* request, whose transcript answers that call with the serialized
\* {error: "Tool '<name>' not found"}.
ToolNotFoundNeverAborts ==
    \A k \in 1..Len(ToolCalls) :
        (pc = "done" /\ ToolCalls[k].function.name \notin ToolNames(tools)) =>
            /\ Len(requests) = 2
            /\ requests[2].messages[AssistantAt + k] =
                  [role |-> "tool", tool_call_id |-> ToolCalls[k].id,
                   content |-> json_dumps(
                       [error |-> <<"Tool '", ToolCalls[k].function.name, "' not found">>])]

\* C6 (no-tool shortcut): once a first response without tool calls has
\* arrived, the turn is over with that response's content as its result,
\* one completion request issued and no tool dispatched.
NoToolShortcut ==
    (assistant_message # NoMessage /\ assistant_message.tool_calls = <<>>) =>
        /\ pc = "done"
        /\ outcome = Return(assistant_message.content)
        /\ Len(requests) = 1
        /\ dispatched = <<>>

NoToolWitness ==
    /\ assistant_message # NoMessage
    /\ assistant_message.tool_calls = <<>>
    /\ assistant_message.content # PyNone

\* No usable key in the secret store or in the environment.
NoKeyConfigured ==
    /\ "OPENAI_API_KEY" \in DOMAIN secrets => secrets["OPENAI_API_KEY"] = ""
    /\ "OPENAI_API_KEY" \in DOMAIN environ => environ["OPENAI_API_KEY"] = ""

\* C7 (missing credential): with no key configured the turn never issues a
\* completion request nor dispatches a tool, and it ends with the setup
\* instructions.
MissingCredential ==
    NoKeyConfigured =>
        /\ requests = <<>>
        /\ dispatched = <<>>
        /\ pc \in {"start", "done"}
        /\ pc = "done" => outcome = Return(PyStr(SetupInstructions))

MissingCredentialWitness == NoKeyConfigured /\ pc = "done"

\* Number of completion requests a turn has issued when a request fails.
RequestsWhenFailed == IF assistant_message = NoMessage THEN 1 ELSE 2

\* C8 (rate-limit classification), as claimed: every fault of the completion
\* interface whose message contains "rate_limit" (case-insensitively) ends
\* the turn with the rate-limit message.
RateLimitClassification ==
    (caught.source = "completion" /\ MentionsRateLimit(caught.msg)) =>
        /\ pc = "done"
        /\ outcome = Return(PyStr(RateLimited))
        /\ Len(requests) = RequestsWhenFailed

\* C8, amended: ... and contains neither "api_key" nor "authentication".
RateLimitClassificationAmended ==
    (/\ caught.source = "completion"
     /\ MentionsRateLimit(caught.msg)
     /\ ~MentionsAuthentication(caught.msg)) =>
        /\ pc = "done"
        /\ outcome = Return(PyStr(RateLimited))
        /\ Len(requests) = RequestsWhenFailed

\* A rate-limit fault spelled in capitals, raised by the second request.
RateLimitWitness ==
    /\ caught.source = "completion"
    /\ MentionsRateLimit(caught.msg)
    /\ ~MentionsAuthentication(caught.msg)
    /\ caught.msg[1] = "Rate"
    /\ Len(requests) = 2

AlwaysReturnsText ==
    pc = "done" => (outcome.kind = "returned" /\ outcome.value.type = "str")

\* C11 (ordering of the two rounds): tools are dispatched one at a time in
\* the order of the first response's requests, the tool message of a call is
\* in the transcript before the next call is dispatched, and the second
\* request is issued, after the first response arrived, only once every
\* request has been dispatched and answered.
OrderedRounds ==
    /\ Len(dispatched) <= Len(ToolCalls)
    /\ \A k \in 1..Len(dispatched) :
          /\ dispatched[k].name = ToolCalls[k].function.name
          /\ dispatched[k].args = json_loads(ToolCalls[k].function.arguments).value
          /\ messages[AssistantAt + k].role = "tool"
          /\ messages[AssistantAt + k].tool_call_id = ToolCalls[k].id
          /\ messages[AssistantAt + k].content = json_dumps(dispatched[k].outcome.value)
    /\ pc = "tool_loop" =>
          /\ tool_index = Len(dispatched) + 1
          /\ Len(messages) = AssistantAt + Len(dispatched)
          /\ Len(requests) = 1
    /\ Len(requests) = 2 =>
          /\ assistant_message # NoMessage
          /\ Len(dispatched) = Len(ToolCalls)
          /\ requests[2].messages = messages

\* Two different tools were dispatched and the second request was issued.
OrderedRoundsWitness ==
    /\ Len(requests) = 2
    /\ Len(dispatched) >= 2
    /\ dispatched[1].name # dispatched[2].name

\* C12 (no automatic retry): a turn issues at most two completion requests,
\* exactly one when the first response has no tool calls, none when no key
\* is configured, and a fault of a completion request ends the turn with no
\* request issued after it.
NoAutomaticRetry ==
    /\ Len(requests) <= 2
    /\ (assistant_message # NoMessage /\ assistant_message.tool_calls = <<>>) =>
          Len(requests) = 1
    /\ NoKeyConfigured => requests = <<>>
    /\ caught.source = "completion" =>
          (pc = "done" /\ Len(requests) = RequestsWhenFailed)
    /\ caught.source = "decode" => (pc = "done" /\ Len(requests) = 1)

\* The second request failed: two requests were issued and the turn is over.
NoRetryWitness ==
    /\ caught.source = "completion"
    /\ Len(requests) = 2
    /\ pc = "done"

\* ------------------------------------------- composing the first request
\* A stored history of n entries, user and assistant taking turns.
HistoryOf(n) ==
    [k \in 1..n |->
        [role |-> IF k % 2 = 1 THEN "user" ELSE "assistant",
         content |-> PyStr(<<"message ", ToString(k)>>)]]

\* A turn with a key configured and a history of any length up to MaxHistory.
InitCompose ==
    /\ pc = "start"
    /\ secrets = [OPENAI_API_KEY |-> "sk-secret"]
    /\ environ \in Environments
    /\ current_agent \in DOMAIN AGENTS
    /\ chat_history \in {HistoryOf(n) : n \in 0..MaxHistory}
    /\ messages = <<>>
    /\ assistant_message = NoMessage
    /\ tool_index = 0
    /\ requests = <<>>
    /\ dispatched = <<>>
    /\ caught = NoFault
    /\ outcome = Running
    /\ OthersIdle

\* The turn up to the answer to its first request.
NextCompose ==
    \/ Start
    \/ FirstCompletionFails

SpecCompose == InitCompose /\ [][NextCompose]_vars

\* C13 (compose): the transcript of the first request is the system message
\* with the agent's persona, the last 10 history entries (all of them when
\* there are fewer) in their order and unchanged, and the user message; its
\* length is 2 + min(10, |history|).
ComposeTranscript ==
    Len(requests) >= 1 =>
        LET t == requests[1].messages
            n == IF Len(chat_history) < 10 THEN Len(chat_history) ELSE 10
        IN  /\ Len(t) = 2 + n
            /\ t[1] = [role |-> "system", content |-> AGENTS[current_agent].description]
            /\ \A k \in 1..n : t[1 + k] = chat_history[Len(chat_history) - n + k]
            /\ t[2 + n] = [role |-> "user", content |-> UserMessage]

\* A first request composed from a history of more than 10 entries.
ComposeWitness == Len(requests) >= 1 /\ Len(chat_history) > 10

\* The declared parameter of that name.
Declared(tool, n) == CHOOSE q \in {tool.params[k] : k \in 1..Len(tool.params)} : q.name = n

\* A dispatched call that binds to the callable's signature while leaving
\* out at least one parameter that has a default.
OmitsOnlyDefaulted(d) ==
    /\ d.name \in ToolNames(tools)
    /\ d.args.type = "dict"
    /\ LET tool == ToolsMap(tools, d.name)
           names == {tool.params[k].name : k \in 1..Len(tool.params)}
       IN  /\ DOMAIN d.args.items \subseteq names
           /\ \A n \in names \ DOMAIN d.args.items : Declared(tool, n).default # Empty
           /\ names \ DOMAIN d.args.items # {}

\* A dispatched call to a registered callable whose arguments leave out some
\* parameter that has a default.
OmitsDefaulted(d) ==
    /\ d.name \in ToolNames(tools)
    /\ d.args.type = "dict"
    /\ LET tool == ToolsMap(tools, d.name)
       IN  \E j \in 1..Len(tool.params) :
               /\ tool.params[j].default # Empty
               /\ tool.params[j].name \notin DOMAIN d.args.items

\* C17 as stated: whenever the decoded arguments leave out a parameter that
\* has a default, the callable is invoked and its own result is handed back,
\* never an error built by the dispatcher.
DefaultsAlwaysApplied ==
    \A k \in 1..Len(dispatched) :
        LET d == dispatched[k]
        IN  OmitsDefaulted(d) =>
                /\ d.invoked
                /\ ~d.callee.raised
                /\ d.outcome = d.callee

\* C17 amended: a call whose arguments name declared parameters only, give
\* every parameter that has no default and leave out one that has, runs the
\* callable's body with the declared default in that parameter's place; what
\* the body returns is handed back unchanged.
DefaultsApplied ==
    \A k \in 1..Len(dispatched) :
        LET d == dispatched[k]
        IN  OmitsOnlyDefaulted(d) =>
                LET tool == ToolsMap(tools, d.name)
                    names == {tool.params[j].name : j \in 1..Len(tool.params)}
                    bound == [n \in names |->
                                 IF n \in DOMAIN d.args.items THEN d.args.items[n]
                                 ELSE Declared(tool, n).default]
                IN  /\ d.invoked
                    /\ d.callee \in ToolBody(d.name, bound)
                    /\ ~d.callee.raised =>
                          (d.outcome = d.callee /\ "success" \in DOMAIN d.outcome.value)

DefaultsWitness ==
    \E k \in 1..Len(dispatched) :
        /\ dispatched[k].name = "get_weather_forecast"
        /\ dispatched[k].args = PyDict([n \in {"city"} |-> PyStr(<<"Paris">>)])
        /\ OmitsOnlyDefaulted(dispatched[k])
        /\ dispatched[k].outcome.value.success

-----------------------------------------------------------------------------
\* get_tool_definitions taken alone, over lists of callables.

MaxTools == 2

\* A callable whose docstring opens with its summary, with a parameter line
\* holding two colons, an unannotated parameter and an undescribed one.
convert_time ==
    [name |-> "convert_time",
     params |-> <<Param("when", "str", Empty),
                  Param("zone", "", PyStr(<<"UTC">>)),
                  Param("strict", "bool", Empty)>>,
     doc |-> << <<"Convert a time of day.">>,
                <<>>,
                <<"    ", "when", ":", " ", "Time as HH", ":", "MM", " ">>,
                <<"    ", "zone", ":", " ", "Zone name">> >>]

\* A callable without a docstring.
scale ==
    [name |-> "scale",
     params |-> <<Param("factor", "float", PyInt(1)), Param("value", "", Empty)>>,
     doc |-> <<>>]

Callables == UNION {{TOOLS[a][k] : k \in 1..Len(TOOLS[a])} : a \in DOMAIN TOOLS} \cup {convert_time, scale}

ToolLists == UNION {[1..n -> Callables] : n \in 0..MaxTools}

Built(value) == [built |-> TRUE, value |-> value]

InitSchema ==
    /\ TurnIdle
    /\ tool_list \in ToolLists
    /\ definitions = NotBuilt
    /\ ClientsIdle
    /\ GeocodeIdle
    /\ InvocationsIdle
    /\ LaterIdle

BuildDefinitions ==
    /\ definitions = NotBuilt
    /\ definitions' = Built(get_tool_definitions(tool_list))
    /\ UNCHANGED <<turnVars, tool_list, clientVars, geoVars, invocationVars, laterVars>>

NextSchema == BuildDefinitions

SpecSchema == InitSchema /\ [][NextSchema]_vars

\* The position of a name in a callable's signature.
PositionIn(tool, n) == CHOOSE j \in 1..Len(tool.params) : tool.params[j].name = n

\* C14: the definitions hold one entry per callable, in order and under the
\* callable's name; an entry's properties are keyed by exactly the declared
\* parameters; its required list holds exactly the parameters declared
\* without a default, each once, in declaration order.
SchemaRoundTrip ==
    definitions.built =>
        LET d == definitions.value
        IN  /\ Len(d) = Len(tool_list)
            /\ \A k \in 1..Len(tool_list) :
                  LET tool == tool_list[k]
                      ps   == tool.params
                      req  == d[k].function.parameters.required
                  IN  /\ d[k].type = "function"
                      /\ d[k].function.name = tool.name
                      /\ DOMAIN d[k].function.parameters.properties
                            = {ps[j].name : j \in 1..Len(ps)}
                      /\ \A j \in 1..Len(ps) :
                            (ps[j].default = Empty) <=> (\E r \in 1..Len(req) : req[r] = ps[j].name)
                      /\ \A r \in 1..Len(req) : \E j \in 1..Len(ps) : ps[j].name = req[r]
                      /\ \A r1, r2 \in 1..Len(req) :
                            r1 < r2 => PositionIn(tool, req[r1]) < PositionIn(tool, req[r2])

SchemaWitness ==
    /\ definitions.built
    /\ tool_list = <<get_weather_forecast, convert_time>>
    /\ definitions.value[1].function.parameters.required = <<"city">>
    /\ definitions.value[2].function.parameters.required = <<"when", "strict">>

\* The lines of a docstring that hold more than white space.
NonEmptyLines(doc) == {k \in 1..Len(doc) : Strip(doc[k]) # <<>>}

\* C15: for every callable that has documentation, the description of its
\* entry is the first non-empty line of that documentation (indented or
\* not), never the empty string.
ToolSummary ==
    definitions.built =>
        \A k \in 1..Len(tool_list) :
            LET doc == tool_list[k].doc
            IN  NonEmptyLines(doc) # {} =>
                    LET first == CHOOSE n \in NonEmptyLines(doc) : \A m \in NonEmptyLines(doc) : n <= m
                    IN  /\ definitions.value[k].function.description \in {doc[first], Strip(doc[first])}
                        /\ definitions.value[k].function.description # <<>>

\* C16: a parameter's description is the text after the first colon, trimmed,
\* of the first documentation line that contains "<name>:", and
\* "Parameter: <name>" when no line contains it.
ParameterDescription ==
    definitions.built =>
        \A k \in 1..Len(tool_list) :
            LET tool == tool_list[k]
                props == definitions.value[k].function.parameters.properties
            IN  \A j \in 1..Len(tool.params) :
                    LET n == tool.params[j].name
                        Mentions(line) == \E c \in 1..(Len(line) - 1) : line[c] = n /\ line[c + 1] = ":"
                    IN  IF \E l \in 1..Len(tool.doc) : Mentions(tool.doc[l])
                        THEN \E l \in 1..Len(tool.doc) :
                                /\ Mentions(tool.doc[l])
                                /\ \A e \in 1..(l - 1) : ~Mentions(tool.doc[e])
                                /\ \E c \in 1..Len(tool.doc[l]) :
                                      /\ tool.doc[l][c] = ":"
                                      /\ \A b \in 1..(c - 1) : tool.doc[l][b] # ":"
                                      /\ props[n].description
                                            = Strip(SubSeq(tool.doc[l], c + 1, Len(tool.doc[l])))
                        ELSE props[n].description = <<"Parameter: ", n>>

ParameterDescriptionWitness ==
    /\ definitions.built
    /\ tool_list = <<convert_time, get_stock_price>>
    /\ definitions.value[1].function.parameters.properties["when"].description
          = <<"Time as HH", ":", "MM">>
    /\ definitions.value[1].function.parameters.properties["strict"].description
          = <<"Parameter: ", "strict">>
    /\ definitions.value[2].function.parameters.properties["symbol"].description
          = <<"Stock ticker symbol (e.g., AAPL, GOOGL, MSFT, TSLA)">>

-----------------------------------------------------------------------------
\* get_weather_client and get_stock_client called from several threads, on
\* freshly imported modules and with no shutdown.

NumCallers == 2

Callers == 1..NumCallers

Waiting == [pc |-> "idle"]

InitClients ==
    /\ TurnIdle
    /\ SchemaIdle
    /\ GeocodeIdle
    /\ InvocationsIdle
    /\ LaterIdle
    /\ singleton = [m \in Modules |-> 0]
    /\ created = [m \in Modules |-> 0]
    /\ caller = [t \in Callers |-> Waiting]

\* A thread enters get_weather_client (m = "weather") or get_stock_client.
EnterGetClient(t, m) ==
    /\ caller[t].pc = "idle"
    /\ caller' = [caller EXCEPT ![t] = [pc |-> "test", module |-> m]]
    /\ UNCHANGED <<singleton, created, turnVars, laterVars, invocationVars, schemaVars, geoVars>>

\* if _weather_client is None:
TestIsNone(t) ==
    /\ caller[t].pc = "test"
    /\ caller' = [caller EXCEPT ![t].pc =
                      IF singleton[caller[t].module] = 0 THEN "construct" ELSE "return"]
    /\ UNCHANGED <<singleton, created, turnVars, laterVars, invocationVars, schemaVars, geoVars>>

\* MCPWeatherClient(): the right-hand side of the assignment.
Construct(t) ==
    /\ caller[t].pc = "construct"
    /\ created' = [created EXCEPT ![caller[t].module] = @ + 1]
    /\ caller' = [caller EXCEPT ![t] =
                      [pc |-> "store", module |-> caller[t].module,
                       instance |-> created[caller[t].module] + 1]]
    /\ UNCHANGED <<singleton, turnVars, laterVars, invocationVars, schemaVars, geoVars>>

\* _weather_client = <the new instance>
StoreGlobal(t) ==
    /\ caller[t].pc = "store"
    /\ singleton' = [singleton EXCEPT ![caller[t].module] = caller[t].instance]
    /\ caller' = [caller EXCEPT ![t] = [pc |-> "return", module |-> caller[t].module]]
    /\ UNCHANGED <<created, turnVars, laterVars, invocationVars, schemaVars, geoVars>>

\* return _weather_client
ReturnGlobal(t) ==
    /\ caller[t].pc = "return"
    /\ caller' = [caller EXCEPT ![t] =
                      [pc |-> "done", module |-> caller[t].module,
                       got |-> singleton[caller[t].module]]]
    /\ UNCHANGED <<singleton, created, turnVars, laterVars, invocationVars, schemaVars, geoVars>>

NextClients ==
    \E t \in Callers :
        \/ \E m \in Modules : EnterGetClient(t, m)
        \/ TestIsNone(t)
        \/ Construct(t)
        \/ StoreGlobal(t)
        \/ ReturnGlobal(t)

SpecClients == InitClients /\ [][NextClients]_vars

\* C19: whatever the interleaving of the callers, each module constructs at
\* most one client and all callers of one accessor get the same instance.
SingletonUnderConcurrency ==
    /\ \A m \in Modules : created[m] <= 1
    /\ \A t, u \in Callers :
          (caller[t].pc = "done" /\ caller[u].pc = "done"
              /\ caller[t].module = caller[u].module)
          => caller[t].got = caller[u].got

-----------------------------------------------------------------------------
\* MCPWeatherClient._geocode_city called by several tasks on the one shared
\* client.

NumLookups == 2

Lookups == 1..NumLookups

Cities == {<<"Paris">>, <<" ", "PARIS", " ">>, <<"Atlantis">>}

\* Variant of CacheKey: the city as given.
CacheKeyAsGiven(city) == city

\* city.lower().strip()
CacheKey(city) == Strip(Lower(city))

\* Entries of the geocoding service's "results" list.
ParisFrance ==
    [name |-> "Paris", country |-> "France", latitude |-> 49, longitude |-> 2,
     timezone |-> "Europe/Paris", admin1 |-> "Ile-de-France"]

ParisTexas == [name |-> "Paris", country |-> "United States", latitude |-> 34, longitude |-> -96]

\* What session.get(GEOCODING_API, ...) can come back with: a failure (a
\* transport error or an error status), a body without results, or a body
\* whose first result is a place of that name.
GeocodingService(city) ==
    {[kind |-> "fault"], [kind |-> "empty"]}
    \cup (IF city # <<"Atlantis">>
          THEN {[kind |-> "found", location |-> l] : l \in {ParisFrance, ParisTexas}}
          ELSE {})

\* result = {...} built from results[0]
GeocodeResult(location) ==
    [latitude |-> location.latitude,
     longitude |-> location.longitude,
     name |-> location.name,
     country |-> location.country,
     timezone |-> IF "timezone" \in DOMAIN location THEN location.timezone ELSE "UTC",
     admin1 |-> IF "admin1" \in DOMAIN location THEN location.admin1 ELSE ""]

\* self._geocode_cache[key] = value
CachePut(cache, key, value) ==
    [k \in DOMAIN cache \cup {key} |-> IF k = key THEN value ELSE cache[k]]

NotLooking == [pc |-> "idle"]

InitGeocode ==
    /\ TurnIdle
    /\ SchemaIdle
    /\ ClientsIdle
    /\ InvocationsIdle
    /\ LaterIdle
    /\ geocode_cache = <<>>
    /\ session \in {"none", "unavailable"}
    /\ lookup = [t \in Lookups |-> NotLooking]
    /\ queried = {}
    /\ answered = {}

\* _geocode_city(city) up to its first await: a cached city returns at once.
GeocodeCity(t, city) ==
    /\ lookup[t].pc = "idle"
    /\ queried' = queried \cup {city}
    /\ lookup' = [lookup EXCEPT ![t] =
                      IF CacheKey(city) \in DOMAIN geocode_cache
                      THEN [pc |-> "done", city |-> city,
                            result |-> geocode_cache[CacheKey(city)]]
                      ELSE [pc |-> "session", city |-> city]]
    /\ UNCHANGED <<geocode_cache, session, answered, turnVars, laterVars, invocationVars, schemaVars, clientVars>>

\* session = await self._get_session(); if not session: return None
GetSession(t) ==
    /\ lookup[t].pc = "session"
    /\ IF session = "unavailable"
       THEN /\ lookup' = [lookup EXCEPT ![t] =
                             [pc |-> "done", city |-> lookup[t].city, result |-> PyNone]]
            /\ UNCHANGED session
       ELSE /\ session' = "open"
            /\ lookup' = [lookup EXCEPT ![t].pc = "request"]
    /\ UNCHANGED <<geocode_cache, queried, answered, turnVars, laterVars, invocationVars, schemaVars, clientVars>>

\* The response arrives: a failure is caught and an empty result list is
\* reported, both returning None; otherwise the result is built.
Response(t) ==
    /\ lookup[t].pc = "request"
    /\ \E r \in GeocodingService(lookup[t].city) :
          IF r.kind = "found"
          THEN /\ lookup' = [lookup EXCEPT ![t] =
                                [pc |-> "store", city |-> lookup[t].city,
                                 result |-> GeocodeResult(r.location)]]
               /\ answered' = answered \cup
                                 {[key |-> CacheKey(lookup[t].city),
                                   result |-> GeocodeResult(r.location)]}
          ELSE /\ lookup' = [lookup EXCEPT ![t] =
                                [pc |-> "done", city |-> lookup[t].city, result |-> PyNone]]
               /\ UNCHANGED answered
    /\ UNCHANGED <<geocode_cache, session, queried, turnVars, laterVars, invocationVars, schemaVars, clientVars>>

\* self._geocode_cache[city_lower] = result; return result
StoreResult(t) ==
    /\ lookup[t].pc = "store"
    /\ geocode_cache' = CachePut(geocode_cache, CacheKey(lookup[t].city), lookup[t].result)
    /\ lookup' = [lookup EXCEPT ![t].pc = "done"]
    /\ UNCHANGED <<session, queried, answered, turnVars, laterVars, invocationVars, schemaVars, clientVars>>

\* The caller has its answer; the task may look up another city.
LookupReturns(t) ==
    /\ lookup[t].pc = "done"
    /\ lookup' = [lookup EXCEPT ![t] = NotLooking]
    /\ UNCHANGED <<geocode_cache, session, queried, answered, turnVars, laterVars, invocationVars, schemaVars, clientVars>>

NextGeocode ==
    \E t \in Lookups :
        \/ \E city \in Cities : GeocodeCity(t, city)
        \/ GetSession(t)
        \/ Response(t)
        \/ StoreResult(t)
        \/ LookupReturns(t)

SpecGeocode == InitGeocode /\ [][NextGeocode]_vars

\* C20: whatever the interleaving of the lookups, no key ever leaves the
\* cache; every key is the lower-cased, stripped form of a city that was
\* queried; every value is a result the geocoding service gave for that key;
\* and the cache changes only when a lookup that got such a result stores it
\* under its own key (a failed or empty lookup changes nothing).
GeocodeCacheIntegrity ==
    /\ [][DOMAIN geocode_cache \subseteq DOMAIN geocode_cache']_vars
    /\ [](\A key \in DOMAIN geocode_cache :
            /\ \E q \in queried : key = Strip(Lower(q))
            /\ [key |-> key, result |-> geocode_cache[key]] \in answered)
    /\ [][geocode_cache' # geocode_cache =>
            \E t \in Lookups :
                /\ lookup[t].pc = "store"
                /\ lookup'[t].pc = "done"
                /\ lookup[t].result # PyNone
                /\ \A key \in DOMAIN geocode_cache' :
                      geocode_cache'[key] =
                          IF key = Strip(Lower(lookup[t].city)) THEN lookup[t].result
                          ELSE geocode_cache[key]]_vars

GeocodeWitness ==
    /\ <<"paris">> \in DOMAIN geocode_cache
    /\ geocode_cache[<<"paris">>] = GeocodeResult(ParisTexas)
    /\ Cardinality(answered) = 2
    /\ queried = Cities
    /\ \E t \in Lookups : lookup[t].pc = "done" /\ lookup[t].result = PyNone

-----------------------------------------------------------------------------
\* Several get_chat_response invocations at once, each in its own thread,
\* with the weather tools going through the one shared weather client.

NumInvocations == 2

Invocations == 1..NumInvocations

ConcurrentAgents == {"stock", "weather"}

GivenHistories == {<<>>, StoredHistory}

UserMessageOf(i) == <<"question ", ToString(i)>>

\* The arguments of an invocation: get_chat_response(user_message,
\* chat_history, agent_config, tools).
Arguments(i, a, h) ==
    [user_message |-> UserMessageOf(i), chat_history |-> h, agent |-> a,
     agent_config |-> AGENTS[a], tools |-> TOOLS[a]]

Fresh == [pc |-> "start", messages |-> <<>>, sent |-> <<>>, result |-> Running,
          foreign |-> FALSE]

InitInvocations ==
    /\ TurnIdle
    /\ SchemaIdle
    /\ ClientsIdle
    /\ GeocodeIdle
    /\ LaterIdle
    /\ invocation = [i \in Invocations |-> Fresh]
    /\ \E a \in [Invocations -> ConcurrentAgents], h \in [Invocations -> GivenHistories] :
          given = [i \in Invocations |-> Arguments(i, a[i], h[i])]
    /\ geocode_writer = <<>>

\* Variant of HistoryAfterCompose: the new user message is appended to the
\* list that was passed in.
HistoryExtended(history, user_msg) ==
    Append(history, [role |-> "user", content |-> user_msg])

\* The history list after the request was composed: it was only read.
HistoryAfterCompose(history, user_msg) == history

\* The request is composed into a new local list and sent.
Respond(i) ==
    /\ invocation[i].pc = "start"
    /\ LET composed == Compose(given[i].agent_config, given[i].chat_history,
                               given[i].user_message)
       IN  invocation' = [invocation EXCEPT ![i] =
                             [@ EXCEPT !.pc = "first", !.messages = composed,
                                       !.sent = <<composed>>]]
    /\ given' = [given EXCEPT ![i].chat_history =
                     HistoryAfterCompose(@, given[i].user_message)]
    /\ UNCHANGED <<geocode_writer, turnVars, laterVars, schemaVars, clientVars, geoVars>>

\* What the model may ask of each agent's tools.
ToolCallOf(a) ==
    [id |-> CallIdAt(1),
     function |-> IF a = "weather"
                  THEN [name |-> "get_weather_alerts", arguments |-> "{\"city\": \"Paris\"}"]
                  ELSE [name |-> "get_stock_price", arguments |-> "{\"symbol\": \"AAPL\"}"]]

RepliesTo(a) ==
    {[role |-> "assistant", content |-> c, tool_calls |-> <<>>] : c \in ReplyContents}
    \cup {[role |-> "assistant", content |-> PyNone, tool_calls |-> <<ToolCallOf(a)>>]}

\* The first response arrives.
FirstResponse(i) ==
    /\ invocation[i].pc = "first"
    /\ \E reply \in RepliesTo(given[i].agent) :
          invocation' = [invocation EXCEPT ![i] =
              IF WantsTools(reply)
              THEN [@ EXCEPT !.pc = "tool", !.messages = Append(@, reply)]
              ELSE [@ EXCEPT !.pc = "done", !.result = Return(reply.content)]]
    /\ UNCHANGED <<given, geocode_writer, turnVars, laterVars, schemaVars, clientVars, geoVars>>

\* The data the weather service holds for a place.
ConditionsAt(location) == [latitude |-> location.latitude, longitude |-> location.longitude]

\* get_weather_alerts over get_current_weather: no location or no data
\* gives the failure mapping, otherwise the conditions at that location.
WeatherResult(city, location, fetched) ==
    IF location = PyNone \/ ~fetched
    THEN [success |-> FALSE, city |-> city, error |-> <<"No data received">>]
    ELSE [success |-> TRUE, city |-> city, conditions |-> ConditionsAt(location)]

\* The requested tool runs and its result is appended; the second request
\* is then sent.  A weather tool geocodes through the shared client.
RunTool(i) ==
    /\ invocation[i].pc = "tool"
    /\ LET tool_call == LoopItem(invocation[i].messages[Len(invocation[i].messages)], 1)
           tool_args == json_loads(tool_call.function.arguments).value
           Finish(tool_result, read_foreign) ==
               invocation' = [invocation EXCEPT ![i] =
                   [@ EXCEPT !.pc = "second",
                             !.messages = Append(@, ToolMessage(tool_call, tool_result)),
                             !.sent = Append(@, Append(invocation[i].messages,
                                                       ToolMessage(tool_call, tool_result))),
                             !.foreign = @ \/ read_foreign]]
       IN  IF given[i].agent = "weather"
           THEN LET city == tool_args.items["city"].val
                    key == CacheKey(city)
                IN  /\ session' = "open"
                    /\ \E fetched \in BOOLEAN :
                          IF key \in DOMAIN geocode_cache
                          THEN /\ Finish(WeatherResult(city, geocode_cache[key], fetched),
                                         geocode_writer[key] # i)
                               /\ UNCHANGED <<geocode_cache, geocode_writer>>
                          ELSE \E r \in GeocodingService(city) :
                                 IF r.kind = "found"
                                 THEN /\ geocode_cache' =
                                            CachePut(geocode_cache, key, GeocodeResult(r.location))
                                      /\ geocode_writer' = CachePut(geocode_writer, key, i)
                                      /\ Finish(WeatherResult(city, GeocodeResult(r.location),
                                                              fetched), FALSE)
                                 ELSE /\ Finish(WeatherResult(city, PyNone, fetched), FALSE)
                                      /\ UNCHANGED <<geocode_cache, geocode_writer>>
           ELSE /\ \E run \in execute_tool(tool_call.function.name, given[i].tools, tool_args) :
                      Finish(run.outcome.value, FALSE)
                /\ UNCHANGED <<geocode_cache, geocode_writer, session>>
    /\ UNCHANGED <<given, lookup, queried, answered, turnVars, laterVars, schemaVars, clientVars>>

\* The second response arrives and its text is returned.
SecondResponse(i) ==
    /\ invocation[i].pc = "second"
    /\ \E c \in ReplyContents :
          invocation' = [invocation EXCEPT ![i] = [@ EXCEPT !.pc = "done", !.result = Return(c)]]
    /\ UNCHANGED <<given, geocode_writer, turnVars, laterVars, schemaVars, clientVars, geoVars>>

NextInvocations ==
    \E i \in Invocations :
        \/ Respond(i)
        \/ FirstResponse(i)
        \/ RunTool(i)
        \/ SecondResponse(i)

SpecInvocations == InitInvocations /\ [][NextInvocations]_vars

\* C18 as stated: no invocation reads state written by another, and none
\* changes the history list or the tool list it was given.
TurnIsolation ==
    /\ [](\A i \in Invocations : ~invocation[i].foreign)
    /\ [][given' = given]_vars

\* C18 amended: an invocation never changes the lists it was given nor the
\* local state of another invocation; its first transcript is made of its
\* own agent's prompt, its own history and its own user message, and its
\* tool messages answer its own requests; the one thing invocations share is
\* what their tools share, so only an invocation that ran a weather tool has
\* read state (a geocode cache entry) written by another.
TurnIsolationAmended ==
    /\ [][given' = given]_vars
    /\ [][\A i, j \in Invocations :
            (i # j /\ invocation'[i] # invocation[i]) => invocation'[j] = invocation[j]]_vars
    /\ [](\A i \in Invocations :
            LET v == invocation[i]
            IN  /\ v.foreign => (given[i].agent = "weather" /\ Len(v.sent) = 2)
                /\ Len(v.sent) >= 1 =>
                      /\ Len(v.sent[1]) = 2 + Len(given[i].chat_history)
                      /\ v.sent[1][1].content = AGENTS[given[i].agent].description
                      /\ \A k \in 1..Len(given[i].chat_history) :
                            v.sent[1][1 + k] = given[i].chat_history[k]
                      /\ v.sent[1][Len(v.sent[1])]
                            = [role |-> "user", content |-> UserMessageOf(i)]
                /\ Len(v.sent) = 2 =>
                      /\ v.sent[2] = v.messages
                      /\ SubSeq(v.sent[2], 1, Len(v.sent[1])) = v.sent[1]
                      /\ v.sent[2][Len(v.sent[2])].tool_call_id
                            = v.sent[2][Len(v.sent[2]) - 1].tool_calls[1].id)

TurnIsolationWitness ==
    \E i, j \in Invocations :
        /\ i # j
        /\ invocation[i].pc = "done" /\ invocation[j].pc = "done"
        /\ invocation[i].foreign
        /\ geocode_writer[<<"paris">>] = j
        /\ given[j].chat_history = StoredHistory

-----------------------------------------------------------------------------
\* The three weather tools taken alone, against every upstream condition.

MaxDays == 9

MaxDaily == 8

WeatherToolNames == {"get_weather_forecast", "get_weather_alerts", "get_air_quality"}

Upstreams ==
    {Unavailable, NoData(FALSE), NoData(TRUE), Fails(<<"Connection", " ", "reset">>)}
    \cup {Data(n) : n \in 0..MaxDaily}

InitWeatherTools ==
    /\ TurnIdle
    /\ SchemaIdle
    /\ ClientsIdle
    /\ GeocodeIdle
    /\ InvocationsIdle
    /\ UIIdle
    /\ ProcessIdle
    /\ input \in [tool : WeatherToolNames, city : {<<"paris">>}, days : (-1)..MaxDays]
    /\ output = NotRun

CallWeatherTool ==
    /\ output = NotRun
    /\ \E upstream \in Upstreams :
          output' = [ran |-> TRUE, upstream |-> upstream,
                     value |-> WeatherTool(input.tool, input.city, input.days, upstream)]
    /\ UNCHANGED <<input, turnVars, schemaVars, clientVars, geoVars, invocationVars,
                   uiVars, processVars>>

NextWeatherTools == CallWeatherTool

SpecWeatherTools == InitWeatherTools /\ [][NextWeatherTools]_vars

\* C21: whenever the weather client is unavailable, returns no data or
\* fails, the tool raises nothing and returns a mapping with success false
\* that carries an error field and a suggestion field.
UpstreamFaultsStructured ==
    (output.ran /\ output.upstream.kind # "data") =>
        /\ ~output.value.outcome.raised
        /\ output.value.outcome.value.success = FALSE
        /\ "error" \in DOMAIN output.value.outcome.value
        /\ "suggestion" \in DOMAIN output.value.outcome.value

\* C30: the forecast_days asked of the provider is min(max(days, 1), 7), and
\* a returned forecast list has exactly the smaller of that number and the
\* number of daily entries the provider returned.
ForecastDayClamping ==
    (output.ran /\ input.tool = "get_weather_forecast") =>
        LET wanted == IF input.days < 1 THEN 1 ELSE IF input.days > 7 THEN 7 ELSE input.days
        IN  /\ \A k \in 1..Len(output.value.requested) : output.value.requested[k] = wanted
            /\ output.upstream.kind = "data" =>
                  /\ output.value.requested = <<wanted>>
                  /\ Len(output.value.outcome.value.forecast) <= wanted
                  /\ Len(output.value.outcome.value.forecast)
                        = IF wanted < output.upstream.daily THEN wanted
                          ELSE output.upstream.daily

ForecastClampWitness ==
    /\ output.ran
    /\ input.tool = "get_weather_forecast"
    /\ input.days = MaxDays
    /\ output.upstream = Data(MaxDaily)
    /\ Len(output.value.outcome.value.forecast) = 7

-----------------------------------------------------------------------------
\* The process: start-up (src/app.py:28-104), tool calls while it runs, and
\* cleanup_mcp_clients at teardown.

\* The names agents/stock.py defines at module level.
StockAgentNames ==
    {"STOCK_CONFIG", "STOCKS", "INDICES", "get_stock_price", "get_market_summary",
     "get_stock_news", "stock_tools"}

\* from agents.stock import <name>
ImportFromStockAgent(name) ==
    IF name \in StockAgentNames THEN Returned(name)
    ELSE Raised(<<"cannot import name '", name, "' from 'agents.stock'">>)

\* The injection at start-up, inside its try/except: whether it went through.
InjectStockClient == ~ImportFromStockAgent("set_stock_client").raised

\* Where a stock tool takes its figures from.
StockToolSource(tool) == "simulated tables"

StockToolNames == ToolNames(stock_tools)

\* A client as its constructor leaves it.
NewInstance(m) == IF m = "weather" THEN [session |-> "none"] ELSE [yf |-> FALSE]

\* A module's global and the instances it has made.
ModuleState(m) == [ref |-> singleton[m], made |-> instances[m]]

\* get_weather_client() / get_stock_client() run by one thread.
GetClient(m, st) ==
    IF st.ref = 0
    THEN [ref |-> Len(st.made) + 1, made |-> Append(st.made, NewInstance(m))]
    ELSE st

\* MCPStockClient.close()
StockClose(inst) == [inst EXCEPT !.yf = FALSE]

\* shutdown_weather_client(): the reference is cleared, nothing is closed.
shutdown_weather_client(st) ==
    Returned(IF st.ref # 0 THEN [st EXCEPT !.ref = 0] ELSE st)

\* Variant of shutdown_stock_client: close() is called without the test
\* for None.
shutdown_stock_client_unguarded(st) ==
    IF st.ref = 0 THEN Raised(<<"'NoneType' object has no attribute 'close'">>)
    ELSE Returned([ref |-> 0, made |-> [st.made EXCEPT ![st.ref] = StockClose(@)]])

\* shutdown_stock_client(): close() on the client, then clear the reference.
shutdown_stock_client(st) ==
    Returned(IF st.ref # 0
             THEN [ref |-> 0, made |-> [st.made EXCEPT ![st.ref] = StockClose(@)]]
             ELSE st)

Shutdown(m, st) ==
    IF m = "weather" THEN shutdown_weather_client(st) ELSE shutdown_stock_client(st)

InitProcess ==
    /\ TurnIdle
    /\ SchemaIdle
    /\ GeocodeIdle
    /\ InvocationsIdle
    /\ PureIdle
    /\ UIIdle
    /\ singleton = [m \in Modules |-> 0]
    /\ created = [m \in Modules |-> 0]
    /\ caller = <<>>
    /\ app = [phase |-> "boot", weather_ref |-> 0, stock_ref |-> 0, injected |-> FALSE]
    /\ instances = [m \in Modules |-> <<>>]
    /\ stock_sources = {}

\* initialize_mcp_weather_client(), initialize_mcp_stock_client() (each gives
\* the client, or None when the import fails), then the injection.
Startup ==
    /\ app.phase = "boot"
    /\ \E ok \in [Modules -> BOOLEAN] :
          LET after == [m \in Modules |->
                           IF ok[m] THEN GetClient(m, ModuleState(m)) ELSE ModuleState(m)]
          IN  /\ singleton' = [m \in Modules |-> after[m].ref]
              /\ instances' = [m \in Modules |-> after[m].made]
              /\ created' = [m \in Modules |-> Len(after[m].made)]
              /\ app' = [phase |-> "running",
                         weather_ref |-> after["weather"].ref,
                         stock_ref |-> after["stock"].ref,
                         injected |-> InjectStockClient]
    /\ UNCHANGED <<caller, stock_sources, turnVars, schemaVars, geoVars, invocationVars,
                   pureVars, uiVars>>

\* A weather tool reaches the client and the client gets its session:
\* opened on first use unless httpx cannot be imported.
WeatherFetch ==
    /\ app.phase = "running"
    /\ singleton["weather"] # 0
    /\ \E httpx \in BOOLEAN :
          instances' = [instances EXCEPT !["weather"][singleton["weather"]].session =
                           IF @ = "none" /\ httpx THEN "open" ELSE @]
    /\ UNCHANGED <<app, singleton, created, caller, stock_sources, turnVars, schemaVars,
                   geoVars, invocationVars, pureVars, uiVars>>

\* A method of the stock client is called: yfinance gets loaded.
StockClientCall ==
    /\ app.phase = "running"
    /\ singleton["stock"] # 0
    /\ instances' = [instances EXCEPT !["stock"][singleton["stock"]].yf = TRUE]
    /\ UNCHANGED <<app, singleton, created, caller, stock_sources, turnVars, schemaVars,
                   geoVars, invocationVars, pureVars, uiVars>>

\* One of the stock agent's tools runs.
StockToolCall ==
    /\ app.phase = "running"
    /\ \E tool \in StockToolNames :
          stock_sources' = stock_sources \cup {[tool |-> tool, source |-> StockToolSource(tool)]}
    /\ UNCHANGED <<app, instances, singleton, created, caller, turnVars, schemaVars,
                   geoVars, invocationVars, pureVars, uiVars>>

\* cleanup_mcp_clients(): both shutdowns, each inside its own try.
Cleanup ==
    /\ app.phase \in {"running", "down"}
    /\ LET after == [m \in Modules |->
                        IF Shutdown(m, ModuleState(m)).raised THEN ModuleState(m)
                        ELSE Shutdown(m, ModuleState(m)).value]
       IN  /\ singleton' = [m \in Modules |-> after[m].ref]
           /\ instances' = [m \in Modules |-> after[m].made]
    /\ app' = [app EXCEPT !.phase = "down"]
    /\ UNCHANGED <<created, caller, stock_sources, turnVars, schemaVars, geoVars,
                   invocationVars, pureVars, uiVars>>

NextProcess == Startup \/ WeatherFetch \/ StockClientCall \/ StockToolCall \/ Cleanup

SpecProcess == InitProcess /\ [][NextProcess]_vars

\* C22: in every reachable state, for either module, a second shutdown
\* right after a first one leaves what the first one left, and neither
\* raises; this includes the states in which no client was ever created.
ShutdownIdempotent ==
    \A m \in Modules :
        LET once == Shutdown(m, ModuleState(m))
        IN  /\ ~once.raised
            /\ ~Shutdown(m, once.value).raised
            /\ Shutdown(m, once.value).value = once.value
            /\ once.value.ref = 0

ShutdownWitness ==
    /\ app.phase = "down"
    /\ created["stock"] = 1 /\ instances["stock"][1].yf = FALSE
    /\ created["weather"] = 0
    /\ singleton = [m \in Modules |-> 0]

\* C25: once start-up has completed with a stock client, the injection has
\* succeeded and the stock tools take their results from that client.
StockClientInjected ==
    (app.phase = "running" /\ app.stock_ref # 0) =>
        /\ app.injected
        /\ \A e \in stock_sources : e.source = "stock client"

\* C26: there is no state in which the weather module's reference has been
\* cleared while a session opened by a client it made is still open.
NoLeakedSession ==
    \A k \in 1..Len(instances["weather"]) :
        ~(singleton["weather"] # k /\ instances["weather"][k].session = "open")

-----------------------------------------------------------------------------
\* The registry lookups of the script (src/app.py:497-499), for registered
\* and unregistered identifiers.

MaxLookups == 2

Identifiers == {"ecommerce", "stock", "weather", "travel", "", "Stock", "WEATHER"}

KeyError(key) == Raised(<<"'", key, "'">>)

\* Variant of Subscript: d.get(key, default) with the first entry as default.
SubscriptOrFirst(d, key) ==
    IF key \in DOMAIN d THEN Returned(d[key]) ELSE Returned(d["ecommerce"])

\* d[key] on a dict
Subscript(d, key) == IF key \in DOMAIN d THEN Returned(d[key]) ELSE KeyError(key)

\* current_config = AGENTS[id]; current_tools = TOOLS[id]
LookUpAgent(id) == [config |-> Subscript(AGENTS, id), tools |-> Subscript(TOOLS, id)]

InitRegistry ==
    /\ TurnIdle
    /\ SchemaIdle
    /\ ClientsIdle
    /\ GeocodeIdle
    /\ InvocationsIdle
    /\ UIIdle
    /\ ProcessIdle
    /\ input \in UNION {[1..n -> Identifiers] : n \in 0..MaxLookups}
    /\ output = NotRun

LookUpAgents ==
    /\ output = NotRun
    /\ output' = [ran |-> TRUE, value |-> [k \in 1..Len(input) |-> LookUpAgent(input[k])]]
    /\ UNCHANGED <<input, turnVars, schemaVars, clientVars, geoVars, invocationVars,
                   uiVars, processVars>>

NextRegistry == LookUpAgents

SpecRegistry == InitRegistry /\ [][NextRegistry]_vars

\* C23: an identifier that is not registered makes both lookups fail with
\* the not-found error and yields no configuration or tool list; for a
\* registered identifier both lookups succeed with that agent's entries;
\* the two registries have the same keys.
RegistryLookup ==
    /\ DOMAIN AGENTS = DOMAIN TOOLS
    /\ output.ran =>
          \A k \in 1..Len(input) :
              LET r == output.value[k]
              IN  IF input[k] \in {"ecommerce", "stock", "weather"}
                  THEN /\ ~r.config.raised /\ ~r.tools.raised
                       /\ r.config.value = AGENTS[input[k]]
                       /\ r.tools.value = TOOLS[input[k]]
                  ELSE /\ r.config.raised /\ r.tools.raised
                       /\ r.config.msg = <<"'", input[k], "'">>
                       /\ "value" \notin DOMAIN r.config
                       /\ "value" \notin DOMAIN r.tools

RegistryWitness ==
    /\ output.ran
    /\ input = <<"travel", "stock">>
    /\ output.value[1].tools.raised
    /\ output.value[2].tools.value = stock_tools

-----------------------------------------------------------------------------
\* The Streamlit script: agent buttons, the clear button and the chat input
\* handler, each run to completion.

MaxTurns == 2

\* The n-th prompt typed into an agent's chat.
PromptAt(n) == PyStr(<<"prompt ", ToString(n)>>)

\* What get_chat_response gives the handler: whether a first request was
\* sent, and the string returned.
HandlerReplies ==
    {[sent |-> FALSE, text |-> PyStr(SetupInstructions)],
     [sent |-> TRUE, text |-> PyStr(<<"Here is what I found.">>)],
     [sent |-> TRUE, text |-> PyStr(GenericError(<<"Connection", " ", "error.">>))]}

UserEntry(prompt) == [role |-> "user", content |-> prompt]

AssistantEntry(response) == [role |-> "assistant", content |-> response]

\* Variant of HistoryAfterTurn: the reply is not stored.
HistoryWithoutReply(history, prompt, response) == Append(history, UserEntry(prompt))

\* The selected agent's history once the handler is through: the prompt
\* appended before the call, the response after it.
HistoryAfterTurn(history, prompt, response) ==
    Append(Append(history, UserEntry(prompt)), AssistantEntry(response))

\* Variant of Cleared: the clear button empties every agent's history.
ClearedAll(all_messages, agent) == [a \in DOMAIN all_messages |-> <<>>]

\* st.session_state.messages[current_agent] = []
Cleared(all_messages, agent) == [all_messages EXCEPT ![agent] = <<>>]

InitUI ==
    /\ TurnIdle
    /\ SchemaIdle
    /\ ClientsIdle
    /\ GeocodeIdle
    /\ InvocationsIdle
    /\ PureIdle
    /\ ProcessIdle
    /\ session_state = [messages |-> [a \in DOMAIN AGENTS |-> <<>>],
                        current_agent |-> "ecommerce"]
    /\ first_request = <<>>

\* An agent button is pressed.
SelectAgent ==
    /\ \E agent_id \in DOMAIN AGENTS :
          session_state' = [session_state EXCEPT !.current_agent = agent_id]
    /\ UNCHANGED <<first_request, turnVars, schemaVars, clientVars, geoVars,
                   invocationVars, pureVars, processVars>>

\* The clear button is pressed.
ClearChat ==
    /\ session_state' = [session_state EXCEPT
                             !.messages = Cleared(@, session_state.current_agent)]
    /\ UNCHANGED <<first_request, turnVars, schemaVars, clientVars, geoVars,
                   invocationVars, pureVars, processVars>>

\* A prompt is entered: it is appended to the selected agent's history,
\* get_chat_response is called with that very list, and its response is
\* appended.
ChatTurn ==
    LET agent == session_state.current_agent
        before == session_state.messages[agent]
        prompt == PromptAt(Len(before) \div 2 + 1)
        passed == Append(before, UserEntry(prompt))
    IN  /\ Len(before) < 2 * MaxTurns
        /\ \E reply \in HandlerReplies :
              /\ first_request' = IF reply.sent THEN Compose(AGENTS[agent], passed, prompt)
                                  ELSE <<>>
              /\ session_state' = [session_state EXCEPT
                                       !.messages[agent] =
                                           HistoryAfterTurn(before, prompt, reply.text)]
        /\ UNCHANGED <<turnVars, schemaVars, clientVars, geoVars, invocationVars,
                       pureVars, processVars>>

NextUI == SelectAgent \/ ClearChat \/ ChatTurn

SpecUI == InitUI /\ [][NextUI]_vars

\* C24: the transcript a chat turn sends first holds the current prompt once
\* only, as its last message, and not also as the last history entry.
PromptSentOnce ==
    first_request # <<>> =>
        LET t == first_request
        IN  /\ t[Len(t)].role = "user"
            /\ Cardinality({k \in 1..Len(t) : t[k] = t[Len(t)]}) = 1
            /\ t[Len(t) - 1] # t[Len(t)]

\* C27: every agent's history has even length and alternates user,
\* assistant from a user message on; a step that extends a history appends
\* one user message and then one assistant message, whatever the reply.
HistoryShape ==
    /\ [](\A a \in DOMAIN AGENTS :
            LET h == session_state.messages[a]
            IN  /\ Len(h) % 2 = 0
                /\ \A k \in 1..Len(h) :
                      h[k].role = IF k % 2 = 1 THEN "user" ELSE "assistant")
    /\ [][\A a \in DOMAIN AGENTS :
            LET h == session_state.messages[a]
                g == session_state.messages'[a]
            IN  g # h =>
                  \/ g = <<>>
                  \/ /\ Len(g) = Len(h) + 2
                     /\ SubSeq(g, 1, Len(h)) = h
                     /\ g[Len(h) + 1].role = "user"
                     /\ g[Len(h) + 2].role = "assistant"]_vars

HistoryShapeWitness ==
    /\ Len(session_state.messages["stock"]) = 4
    /\ session_state.messages["stock"][2].content = PyStr(GenericError(<<"Connection", " ", "error.">>))
    /\ session_state.messages["stock"][4].content = PyStr(SetupInstructions)
    /\ Len(session_state.messages["weather"]) = 2

\* C28: a step changes at most the history of the agent selected when it
\* started; a step that changes the selected agent changes no history; the
\* selected agent is always a registered one.
HistoryFrame ==
    /\ [](session_state.current_agent \in DOMAIN AGENTS)
    /\ [][/\ \A a \in DOMAIN AGENTS :
               (a # session_state.current_agent =>
                   session_state.messages'[a] = session_state.messages[a])
           /\ (session_state.current_agent' # session_state.current_agent =>
                   session_state.messages' = session_state.messages)]_vars

HistoryFrameWitness ==
    /\ session_state.current_agent = "ecommerce"
    /\ session_state.messages["ecommerce"] = <<>>
    /\ first_request # <<>>
    /\ first_request[1].content = AGENTS["ecommerce"].description
    /\ Len(session_state.messages["stock"]) = 2
    /\ Len(session_state.messages["weather"]) = 4

\* ------------------------------------------ stock client: news gathering
\* MCPStockClient.get_stock_news gathers news through yfinance: the news of
\* the requested ticker, or, when that yields nothing, the news of three
\* index funds; it then drops repeated headlines and caps the list.

\* Longest news list the provider returns for the requested ticker.
MaxFeed == 11

\* Longest news list the provider returns for one index fund.
MaxGeneral == 4

\* news[:10] and unique_news[:10]
NewsLimit == 10

\* news[:3] of each index fund
GeneralLimit == 3

\* Seconds in an hour and in a day, the thresholds of the "time ago" text.
Hour == 3600

Day == 86400

general_symbols == <<"SPY", "QQQ", "DIA">>

\* str.upper() on one atom.
UpperAtom(a) ==
    CASE a = "aapl" -> "AAPL"
      [] a = "brk.b" -> "BRK.B"
      [] OTHER -> a

\* str.upper()
Upper(s) == [k \in 1..Len(s) |-> UpperAtom(s[k])]

\* str.replace(".", "-") on one atom.
DotToDashAtom(a) ==
    CASE a = "BRK.B" -> "BRK-B"
      [] OTHER -> a

\* symbol.replace(".", "-")
YahooSymbol(symbol) == [k \in 1..Len(symbol) |-> DotToDashAtom(symbol[k])]

\* dict.get(key, default) on a provider item
ItemGet(item, key, default) == IF key \in DOMAIN item THEN item[key] ELSE default

\* The "time ago" text of an item; providerPublishTime is modelled by the
\* item's age in seconds at the time of the call, 0 or absent meaning none.
TimeAgo(item) ==
    LET time_diff == ItemGet(item, "age", 0)
    IN  IF time_diff = 0 THEN <<"Recently">>
        ELSE IF time_diff < Hour THEN <<ToString(time_diff \div 60), "minutes ago">>
        ELSE IF time_diff < Day THEN <<ToString(time_diff \div Hour), "hours ago">>
        ELSE <<ToString(time_diff \div Day), "days ago">>

\* The entry appended to news_items for one provider item.
NewsItem(item) ==
    [headline |-> ItemGet(item, "title", <<"No", "title">>),
     source   |-> ItemGet(item, "publisher", <<"Unknown">>),
     time     |-> TimeAgo(item),
     link     |-> ItemGet(item, "link", <<>>),
     type     |-> ItemGet(item, "type", <<"STORY">>)]

\* seq[:n]
Top(seq, n) == SubSeq(seq, 1, Min(Len(seq), n))

\* for item in news[:n]: news_items.append({...})
Gathered(news, n) == [k \in 1..Min(Len(news), n) |-> NewsItem(news[k])]

\* What  ticker.news  does for one ticker: it raises, or returns a list
\* (an empty list stands for every falsy value, None included).
NewsRaises == [raised |-> TRUE]

NewsOf(news) == [raised |-> FALSE, news |-> news]

\* "Remove duplicates based on headline": keeps the first entry of each
\* headline, in order.
UniqueNewsUnfiltered(news_items) == news_items

UniqueNews(news_items) ==
    LET RECURSIVE Keep(_, _, _)
        Keep(k, seen_headlines, unique_news) ==
            IF k > Len(news_items) THEN unique_news
            ELSE IF news_items[k].headline \notin seen_headlines
                 THEN Keep(k + 1, seen_headlines \cup {news_items[k].headline},
                           Append(unique_news, news_items[k]))
                 ELSE Keep(k + 1, seen_headlines, unique_news)
    IN  Keep(1, {}, <<>>)

\* The entries gathered from the requested ticker: none when no symbol was
\* given, when the lookup raised, or when the provider had nothing.
SymbolNews(symbol, answer) ==
    IF symbol = <<>> \/ answer.raised THEN <<>>
    ELSE Gathered(answer.news, NewsLimit)

\* The entries gathered from the index funds, in the order of
\* general_symbols; a fund whose lookup raises is skipped.
GeneralNews(answers) ==
    LET RECURSIVE From(_)
        From(k) ==
            IF k > Len(general_symbols) THEN <<>>
            ELSE (IF answers[k].raised THEN <<>>
                  ELSE Gathered(answers[k].news, GeneralLimit)) \o From(k + 1)
    IN  From(1)

\* filter_applied at the end of the method.  symbol is the argument as
\* given, tested for truth before it is upper-cased and stripped.
FilterApplied(symbol, answer, general) ==
    LET stripped == Strip(Upper(symbol))
        named == IF symbol = <<>> THEN <<"All", "Markets">>
                 ELSE IF answer.raised
                      THEN stripped \o <<"(news unavailable, showing general)">>
                      ELSE stripped
    IN  IF general /\ (IF symbol = <<>> THEN TRUE ELSE stripped = <<>>)
        THEN <<"General", "Market", "News">>
        ELSE named

\* MCPStockClient.get_stock_news(symbol): yf is whether yfinance could be
\* imported, answer what the provider does for the requested ticker, and
\* answers what it does for the three index funds (consulted only when the
\* requested ticker gave no entries).
MCPStockClient_get_stock_news(symbol, yf, answer, answers) ==
    IF ~yf THEN PyNone
    ELSE LET own == SymbolNews(symbol, answer)
             general == own = <<>>
             news_items == IF general THEN GeneralNews(answers) ELSE own
             unique_news == UniqueNews(news_items)
         IN  [type |-> "dict",
              success |-> TRUE,
              filter |-> FilterApplied(symbol, answer, general),
              article_count |-> Len(unique_news),
              news |-> Top(unique_news, NewsLimit),
              data_source |-> <<"Yahoo", "Finance">>]

\* ---- the provider's answers considered
\* Item k of a ticker's news list.  "shared" lists carry the same stories
\* for every ticker, "paired" lists carry every story twice, "own" lists
\* carry stories no other ticker has, "untitled" items have no title.
ProviderItem(ticker, pattern, k) ==
    LET link == ticker \o <<ToString(k)>>
    IN  CASE pattern = "shared" ->
                [title |-> <<"story", ToString(k)>>, publisher |-> <<"wire">>,
                 link |-> link, age |-> 600 * k * k * k]
          [] pattern = "paired" ->
                [title |-> <<"story", ToString((k + 1) \div 2)>>, link |-> link,
                 age |-> Day * k]
          [] pattern = "own" ->
                [title |-> ticker \o <<ToString(k)>>, link |-> link, type |-> <<"VIDEO">>]
          [] OTHER -> [link |-> link]

Patterns == {"shared", "paired", "own", "untitled"}

ProviderAnswers(ticker, longest) ==
    {NewsRaises} \cup
    {NewsOf([k \in 1..n |-> ProviderItem(ticker, pattern, k)]) :
        pattern \in Patterns, n \in 0..longest}

NotAsked == [raised |-> FALSE, news |-> <<>>, asked |-> FALSE]

Symbols == {<<>>, <<"aapl">>, <<" ", "aapl">>, <<"brk.b">>, <<" ">>}

\* What the provider may do for index fund k, given the answer for the
\* requested ticker.
GeneralAnswers(k, answer) ==
    IF input.yf /\ SymbolNews(input.symbol, answer) = <<>>
    THEN ProviderAnswers(<<general_symbols[k]>>, MaxGeneral)
    ELSE {NotAsked}

InitNews ==
    /\ TurnIdle
    /\ SchemaIdle
    /\ ClientsIdle
    /\ GeocodeIdle
    /\ InvocationsIdle
    /\ UIIdle
    /\ ProcessIdle
    /\ input \in [symbol : Symbols, yf : BOOLEAN]
    /\ output = NotRun

\* One call of the method.  The provider is consulted as the code consults
\* it: for the requested ticker when a symbol was given, and for the index
\* funds only when that gave no entries.
GetStockNews ==
    /\ output = NotRun
    /\ \E answer \in (IF input.yf /\ input.symbol # <<>>
                      THEN ProviderAnswers(YahooSymbol(Strip(Upper(input.symbol))), MaxFeed)
                      ELSE {NotAsked}) :
       \E a1 \in GeneralAnswers(1, answer), a2 \in GeneralAnswers(2, answer),
          a3 \in GeneralAnswers(3, answer) :
          LET answers == <<a1, a2, a3>> IN
          output' = [ran |-> TRUE, answer |-> answer, answers |-> answers,
                     value |-> MCPStockClient_get_stock_news(input.symbol, input.yf,
                                                             answer, answers)]
    /\ UNCHANGED <<input, turnVars, schemaVars, clientVars, geoVars, invocationVars,
                   uiVars, processVars>>

NextNews == GetStockNews

SpecNews == InitNews /\ [][NextNews]_vars

\* A call that returned a successful result.
NewsSucceeded == output.ran /\ output.value.type = "dict" /\ output.value.success

\* C29: in every successful result of MCPStockClient.get_stock_news the news
\* items have pairwise distinct headlines, there are at most 10 of them, and
\* article_count equals the number of items.
NewsDistinctAndCounted ==
    NewsSucceeded =>
        LET news == output.value.news
        IN  /\ \A i, j \in 1..Len(news) : i # j => news[i].headline # news[j].headline
            /\ Len(news) <= 10
            /\ output.value.article_count = Len(news)

\* A call for a ticker whose lookup raised, answered from index funds that
\* carry the same stories: nine entries gathered, three kept.
NewsWitness ==
    /\ NewsSucceeded
    /\ input.symbol = <<"brk.b">>
    /\ output.answer.raised
    /\ \A k \in 1..3 :
          output.answers[k] =
              NewsOf([j \in 1..MaxGeneral |->
                         ProviderItem(<<general_symbols[k]>>, "shared", j)])
    /\ output.value.article_count = 3
    /\ Len(output.value.news) = 3

====
